---------------------------- MODULE Spec2Model ----------------------------
(***************************************************************************)
(* Model of scripts/build_dashboards.py: the ATA matcher, the urgency      *)
(* classifier, the per-row processing and aggregation of parse_fleet_csv,  *)
(* the daily/weekly merge of build_fleet and the flight-hours history.     *)
(*                                                                         *)
(* Conventions.  A Python Optional[number] is a tuple: <<>> is None and    *)
(* <<n>> is the number n.  A Python str is a tuple of one-character        *)
(* strings.  A Python dict is a function; a dict whose iteration order     *)
(* matters is a record [keys |-> insertion order, at |-> function].        *)
(***************************************************************************)
EXTENDS Integers, Sequences, FiniteSets, TLC

VARIABLES
    pc,        \* position of the modelled run
    cfg,       \* fleet_cfg of the run
    args,      \* arguments of the pure function under check
    ret,       \* its return value
    rows,      \* data rows read so far from the CSV being parsed, in file order
    aircraft,  \* parse_fleet_csv's / build_fleet's `aircraft` dict
    daily,     \* the parsed primary snapshot, as build_fleet holds it before the merge
    weekly,    \* the parsed secondary snapshot (weekly_aircraft)
    history,   \* the flight-hours history map (the persisted file)
    today,     \* the day of datetime.today(), <<year, month, day>>
    prior,     \* the history map update_history was last called with
    call,      \* the arguments of the last update_history call
    ledger_file, \* the spend ledger file: this month's entry
    ledgers,   \* per fetcher run: its SpendLedger object and its place in the run
    issued,    \* FlightAware requests sent this month, by all runs
    loop,      \* build_all: the fleets done so far and how it ended
    history_file, \* the history file on disk, as json.load would find it
    builds,    \* per build run on that file: the history it holds and its place in the run
    sent       \* the requests a fetcher run has sent, in order, with their answers

vars == <<pc, cfg, args, ret, rows, aircraft, daily, weekly,
          history, today, prior, call, ledger_file, ledgers, issued, loop,
          history_file, builds, sent>>

----------------------------------------------------------------------------
(* Optional values *)

None == <<>>

Some(x) == <<x>>

IsNone(o) == o = <<>>

Val(o) == o[1]

\* dict.get(key, default)
Get(d, key, default) == IF key \in DOMAIN d THEN d[key] ELSE default

----------------------------------------------------------------------------
(* Strings as tuples of characters *)

LowerCase == <<"a","b","c","d","e","f","g","h","i","j","k","l","m",
               "n","o","p","q","r","s","t","u","v","w","x","y","z">>

UpperCase == <<"A","B","C","D","E","F","G","H","I","J","K","L","M",
               "N","O","P","Q","R","S","T","U","V","W","X","Y","Z">>

Digits == {"0","1","2","3","4","5","6","7","8","9"}

Letters == {UpperCase[i] : i \in DOMAIN UpperCase}

\* what Python's \s and str.strip() take for whitespace, within the alphabet
Whitespace == {" ", "\t"}

\* the class [-./] of norm_ata's second substitution
Punct == {"-", ".", "/"}

UpperOf == [k \in {LowerCase[i] : i \in DOMAIN LowerCase} |->
                UpperCase[CHOOSE i \in DOMAIN LowerCase : LowerCase[i] = k]]

UpperChar(c) == IF c \in DOMAIN UpperOf THEN UpperOf[c] ELSE c

\* str.upper()
RECURSIVE Upper(_)
Upper(s) == IF s = <<>> THEN <<>> ELSE <<UpperChar(Head(s))>> \o Upper(Tail(s))

\* str.strip()
RECURSIVE LStrip(_)
LStrip(s) == IF s # <<>> /\ Head(s) \in Whitespace THEN LStrip(Tail(s)) ELSE s

RECURSIVE RStrip(_)
RStrip(s) ==
    IF s # <<>> /\ s[Len(s)] \in Whitespace
    THEN RStrip(SubSeq(s, 1, Len(s) - 1))
    ELSE s

Strip(s) == RStrip(LStrip(s))

\* t in a  (substring test)
IsSubstr(t, a) ==
    \E i \in 1..(Len(a) - Len(t) + 1) : SubSeq(a, i, i + Len(t) - 1) = t

\* s.upper().startswith(p), for an upper-case p
StartsWithCI(s, p) == Len(s) >= Len(p) /\ Upper(SubSeq(s, 1, Len(p))) = p

\* number of leading whitespace characters of s from position i on
RECURSIVE WsRun(_, _)
WsRun(s, i) == IF i <= Len(s) /\ s[i] \in Whitespace THEN 1 + WsRun(s, i + 1) ELSE 0

\* a.split(): the maximal runs of non-whitespace
RECURSIVE SplitFrom(_, _, _)
SplitFrom(s, i, cur) ==
    IF i > Len(s) THEN (IF cur = <<>> THEN <<>> ELSE <<cur>>)
    ELSE IF s[i] \in Whitespace
         THEN (IF cur = <<>> THEN <<>> ELSE <<cur>>) \o SplitFrom(s, i + 1, <<>>)
         ELSE SplitFrom(s, i + 1, Append(cur, s[i]))

Split(s) == SplitFrom(s, 1, <<>>)

----------------------------------------------------------------------------
(* ATA matcher *)

\* re.sub(r"\s+", " ", s)
RECURSIVE CollapseWs(_, _)
CollapseWs(s, i) ==
    IF i > Len(s) THEN <<>>
    ELSE IF s[i] \in Whitespace
         THEN <<" ">> \o CollapseWs(s, i + WsRun(s, i))
         ELSE <<s[i]>> \o CollapseWs(s, i + 1)

\* re.sub(r"\s*([-./])\s*", r"\1", s): leftmost matches, scanned left to right
RECURSIVE UnpadPunct(_, _)
UnpadPunct(s, i) ==
    IF i > Len(s) THEN <<>>
    ELSE LET j == i + WsRun(s, i) IN
         IF j <= Len(s) /\ s[j] \in Punct
         THEN <<s[j]>> \o UnpadPunct(s, j + 1 + WsRun(s, j + 1))
         ELSE <<s[i]>> \o UnpadPunct(s, i + 1)

\* re.sub(r"(?<=[A-Z0-9])[./](?=[A-Z])", "-", s)
DashSeparators(s) ==
    [i \in DOMAIN s |->
        IF /\ s[i] \in {".", "/"}
           /\ i > 1 /\ s[i - 1] \in Letters \cup Digits
           /\ i < Len(s) /\ s[i + 1] \in Letters
        THEN "-" ELSE s[i]]

\* the separators turned to dashes before the punctuation is unpadded
norm_ata_dash_first(x) ==
    UnpadPunct(DashSeparators(CollapseWs(Upper(Strip(x)), 1)), 1)

norm_ata(x) ==
    DashSeparators(UnpadPunct(CollapseWs(Upper(Strip(x)), 1), 1))

\* re.sub(r"^\d{2}\s+", "", s).strip()
strip_ata_chapter(s) ==
    IF /\ Len(s) >= 3
       /\ s[1] \in Digits /\ s[2] \in Digits
       /\ s[3] \in Whitespace
    THEN Strip(SubSeq(s, 3 + WsRun(s, 3), Len(s)))
    ELSE Strip(s)

\* a rule is a dict with "label", "ataMatch" or "match", and optionally "mode"
RuleText(rule) == Get(rule, "ataMatch", Get(rule, "match", <<>>))

\* the strip-chapter mode taken as the default mode
ata_matches_never_stripped(ata_val, rule) ==
    LET a    == norm_ata(ata_val)
        t    == norm_ata(RuleText(rule))
        mode == Get(rule, "mode", "contains")
    IN  IF a = <<>> \/ t = <<>> THEN FALSE
        ELSE IF mode = "exact"
             THEN a = t \/ \E k \in DOMAIN Split(a) : Split(a)[k] = t
        ELSE IsSubstr(t, a)

ata_matches(ata_val, rule) ==
    LET a    == norm_ata(ata_val)
        t    == norm_ata(RuleText(rule))
        mode == Get(rule, "mode", "contains")
    IN  IF a = <<>> \/ t = <<>> THEN FALSE
        ELSE IF mode = "exact"
             THEN a = t \/ \E k \in DOMAIN Split(a) : Split(a)[k] = t
        ELSE IF mode = "strip-chapter"
             THEN IsSubstr(strip_ata_chapter(t), strip_ata_chapter(a))
        ELSE IsSubstr(t, a)

----------------------------------------------------------------------------
(* Urgency classifier *)

DefaultCriticalDays == 7

DefaultComingDays == 30

DefaultCriticalHrs == 25

DefaultComingHrs == 100

Bucket(v, critical, coming) ==
    IF v < 0 THEN "OVERDUE"
    ELSE IF v <= critical THEN "CRITICAL"
    ELSE IF v <= coming THEN "COMING_DUE"
    ELSE "OK"

\* classify with a missing days figure read as zero days
classify_null_as_zero(remaining_days, remaining_hours, thresh) ==
    Bucket(IF IsNone(remaining_days) THEN 0 ELSE Val(remaining_days),
           Get(thresh, "criticalDays", DefaultCriticalDays),
           Get(thresh, "comingDays", DefaultComingDays))

classify(remaining_days, remaining_hours, thresh) ==
    LET cd  == Get(thresh, "criticalDays", DefaultCriticalDays)
        cwd == Get(thresh, "comingDays", DefaultComingDays)
        ch  == Get(thresh, "criticalHrs", DefaultCriticalHrs)
        cwh == Get(thresh, "comingHrs", DefaultComingHrs)
    IN  IF ~IsNone(remaining_days) THEN Bucket(Val(remaining_days), cd, cwd)
        ELSE IF ~IsNone(remaining_hours) THEN Bucket(Val(remaining_hours), ch, cwh)
        ELSE "UNKNOWN"


urgency_order == [OVERDUE |-> 0, CRITICAL |-> 1, COMING_DUE |-> 2, OK |-> 3, UNKNOWN |-> 4]

UnrankedBucket == 9

NoValueSentinel == 999999

\* the key without the bucket: the remaining value alone
urgency_sort_key_unbucketed(item) ==
    LET d == Get(item, "remaining_days", None)
        h == Get(item, "remaining_hours", None)
    IN  <<0, IF ~IsNone(d) THEN Val(d) ELSE IF ~IsNone(h) THEN Val(h) ELSE NoValueSentinel>>

urgency_sort_key(item) ==
    LET bucket == Get(urgency_order, Get(item, "status", "UNKNOWN"), UnrankedBucket)
        d      == Get(item, "remaining_days", None)
        h      == Get(item, "remaining_hours", None)
        sub    == IF ~IsNone(d) THEN Val(d)
                  ELSE IF ~IsNone(h) THEN Val(h) ELSE NoValueSentinel
    IN  <<bucket, sub>>

\* Python's comparison of two 2-tuples of numbers
KeyLess(a, b) == a[1] < b[1] \/ (a[1] = b[1] /\ a[2] < b[2])

\* list.sort(key=...): a stable sort; keys[i] is the key of s[i]
StableSort(s, keys) ==
    LET rank(i) == 1 + Cardinality({j \in DOMAIN s :
                        KeyLess(keys[j], keys[i]) \/ (keys[j] = keys[i] /\ j < i)})
    IN  [p \in DOMAIN s |-> s[CHOOSE i \in DOMAIN s : rank(i) = p]]

----------------------------------------------------------------------------
(* CSV cells *)

IsDigitStr(s) == s # <<>> /\ \A i \in DOMAIN s : s[i] \in Digits

DigitVal(c) == CHOOSE n \in 0..9 : <<"0","1","2","3","4","5","6","7","8","9">>[n + 1] = c

RECURSIVE DecimalVal(_)
DecimalVal(s) ==
    IF s = <<>> THEN 0 ELSE 10 * DecimalVal(SubSeq(s, 1, Len(s) - 1)) + DigitVal(s[Len(s)])

RECURSIVE DropCommas(_)
DropCommas(s) ==
    IF s = <<>> THEN <<>>
    ELSE (IF Head(s) = "," THEN <<>> ELSE <<Head(s)>>) \o DropCommas(Tail(s))

\* safe_float on a cell text; the texts of the model are whole numbers or no numbers
safe_float(val) ==
    LET s == DropCommas(Strip(val)) IN
    IF s = <<>> THEN None
    ELSE IF IsDigitStr(s) THEN Some(DecimalVal(s))
    ELSE IF Head(s) \in {"-", "+"} /\ IsDigitStr(Tail(s))
         THEN Some(IF Head(s) = "-" THEN 0 - DecimalVal(Tail(s)) ELSE DecimalVal(Tail(s)))
    ELSE None

IsLeap(y) == (y % 4 = 0 /\ y % 100 # 0) \/ y % 400 = 0

DaysInMonth(y, m) ==
    IF m = 2 THEN (IF IsLeap(y) THEN 29 ELSE 28)
    ELSE IF m \in {4, 6, 9, 11} THEN 30 ELSE 31

ValidDate(y, m, d) == y >= 1 /\ m \in 1..12 /\ d >= 1 /\ d <= DaysInMonth(y, m)

\* strptime's %y: 00..68 are 2000..2068, 69..99 are 1969..1999
PivotYear == 68

\* the fields of a date text: the digit runs between one kind of separator
RECURSIVE FieldsFrom(_, _, _, _)
FieldsFrom(s, i, sep, cur) ==
    IF i > Len(s) THEN <<cur>>
    ELSE IF s[i] = sep THEN <<cur>> \o FieldsFrom(s, i + 1, sep, <<>>)
    ELSE FieldsFrom(s, i + 1, sep, Append(cur, s[i]))

DateFields(s, sep) == FieldsFrom(s, 1, sep, <<>>)

\* parse_date: an ISO date, as <<year, month, day>>, or None.  The strptime
\* formats are tried in the source's order; the pandas fallback is modelled
\* only for texts it rejects.
parse_date(val) ==
    LET s  == Strip(val)
        sl == DateFields(s, "/")
        da == DateFields(s, "-")
        ok(f) == Len(f) = 3 /\ \A k \in 1..3 : IsDigitStr(f[k]) /\ Len(f[k]) <= 4
        mdY == ok(sl) /\ Len(sl[3]) = 4 /\ Len(sl[1]) <= 2 /\ Len(sl[2]) <= 2
               /\ ValidDate(DecimalVal(sl[3]), DecimalVal(sl[1]), DecimalVal(sl[2]))
        Ymd == ok(da) /\ Len(da[1]) = 4 /\ Len(da[2]) <= 2 /\ Len(da[3]) <= 2
               /\ ValidDate(DecimalVal(da[1]), DecimalVal(da[2]), DecimalVal(da[3]))
        yy  == IF DecimalVal(sl[3]) <= PivotYear THEN 2000 + DecimalVal(sl[3])
               ELSE 1900 + DecimalVal(sl[3])
        mdy == ok(sl) /\ Len(sl[3]) = 2 /\ Len(sl[1]) <= 2 /\ Len(sl[2]) <= 2
               /\ ValidDate(yy, DecimalVal(sl[1]), DecimalVal(sl[2]))
    IN  IF s = <<>> THEN None
        ELSE IF mdY THEN Some(<<DecimalVal(sl[3]), DecimalVal(sl[1]), DecimalVal(sl[2])>>)
        ELSE IF Ymd THEN Some(<<DecimalVal(da[1]), DecimalVal(da[2]), DecimalVal(da[3])>>)
        ELSE IF mdy THEN Some(<<yy, DecimalVal(sl[1]), DecimalVal(sl[2])>>)
        ELSE None


----------------------------------------------------------------------------
(* Row processor and aircraft aggregator: parse_fleet_csv *)

\* max(COLS.values()): the index of the "status" column
MaxColIndex == 63

DefaultComponentWindow == 200

\* the days window of the in-window test
ComponentDays == 60

RETIREMENT_KW == {
    <<"R","E","T","I","R","E">>, <<"O","V","E","R","H","A","U","L">>,
    <<"D","I","S","C","A","R","D">>, <<"L","I","F","E"," ","L","I","M","I","T">>,
    <<"T","B","O">>, <<"R","E","P","L","A","C","E","M","E","N","T">>,
    <<"R","E","P","L","A","C","E">>, <<"C","H","A","N","G","E"," ","O","I","L">>,
    <<"N","O","Z","Z","L","E">>, <<"B","A","T","T","E","R","Y">>,
    <<"C","A","R","T","R","I","D","G","E">>, <<"B","E","L","T">>,
    <<"F","I","L","T","E","R">>}

has_retirement_kw(desc) ==
    LET d == Upper(desc) IN \E kw \in RETIREMENT_KW : IsSubstr(kw, d)

StrRII == <<"R","I","I">>

StrParenRII == <<"(","R","I","I",")">>

StrPastDue == <<"P","A","S","T"," ","D","U","E">>

StrInspection == <<"I","N","S","P","E","C","T","I","O","N">>

StrPart == <<"P","A","R","T">>

\* re.sub(r"^\(RII\)\s*", "", desc, flags=re.IGNORECASE)
DropParenRII(s) ==
    IF StartsWithCI(s, StrParenRII) THEN SubSeq(s, 6 + WsRun(s, 6), Len(s)) ELSE s

\* re.sub(r"^RII\s+", "", s, flags=re.IGNORECASE)
DropWordRII(s) ==
    IF StartsWithCI(s, StrRII) /\ WsRun(s, 4) >= 1
    THEN SubSeq(s, 4 + WsRun(s, 4), Len(s)) ELSE s

\* a or b, for two strings
OrElse(a, b) == IF a # <<>> THEN a ELSE b

_flatten_inspections(fleet_cfg) ==
    LET groups == Get(fleet_cfg, "inspection_groups", <<>>)
        RECURSIVE Flat(_)
        Flat(gs) ==
            IF gs = <<>> THEN <<>>
            ELSE LET grp   == Head(gs)
                     rules == Get(grp, "inspections", <<>>)
                 IN  [i \in DOMAIN rules |->
                        [_group |-> Some(grp["label"])] @@ rules[i]]
                     \o Flat(Tail(gs))
        plain == Get(fleet_cfg, "inspections", <<>>)
    IN  IF groups # <<>> THEN Flat(groups)
        ELSE [i \in DOMAIN plain |-> [_group |-> None] @@ plain[i]]

\* the comparisons taken with <= in place of <
_more_urgent_non_strict(rem_hrs, rem_days, existing) ==
    LET eh == Get(existing, "remaining_hours", None)
        ed == Get(existing, "remaining_days", None)
    IN  IF ~IsNone(rem_hrs) /\ ~IsNone(eh) THEN Val(rem_hrs) <= Val(eh)
        ELSE IF ~IsNone(rem_hrs) /\ IsNone(eh) THEN TRUE
        ELSE IF ~IsNone(rem_days) /\ ~IsNone(ed) THEN Val(rem_days) <= Val(ed)
        ELSE FALSE

_more_urgent(rem_hrs, rem_days, existing) ==
    LET eh == Get(existing, "remaining_hours", None)
        ed == Get(existing, "remaining_days", None)
    IN  IF ~IsNone(rem_hrs) /\ ~IsNone(eh) THEN Val(rem_hrs) < Val(eh)
        ELSE IF ~IsNone(rem_hrs) /\ IsNone(eh) THEN TRUE
        ELSE IF ~IsNone(rem_days) /\ ~IsNone(ed) THEN Val(rem_days) < Val(ed)
        ELSE FALSE

\* the in-window test comparing the raw status without upper-casing it
in_window_case_sensitive(rem_hrs, rem_days, status_raw, comp_win) ==
    \/ (~IsNone(rem_hrs) /\ Val(rem_hrs) <= comp_win)
    \/ (IsNone(rem_hrs) /\ ~IsNone(rem_days) /\ Val(rem_days) <= ComponentDays)
    \/ status_raw = <<"P","A","S","T"," ","D","U","E">>

\* the in-window test of a component-style item
in_window(rem_hrs, rem_days, status_raw, comp_win) ==
    \/ (~IsNone(rem_hrs) /\ Val(rem_hrs) <= comp_win)
    \/ (IsNone(rem_hrs) /\ ~IsNone(rem_days) /\ Val(rem_days) <= ComponentDays)
    \/ Upper(status_raw) = StrPastDue


EmptyDict == [k \in {} |-> None]

\* d[key] = value on a plain dict
Put(d, key, value) == [k \in DOMAIN d \cup {key} |-> IF k = key THEN value ELSE d[k]]

\* the candidate a phase rule builds from a row
PhaseItem(rule, ata_text, desc, rem_hrs, rem_days, status_raw, status, rii_flag) ==
    [label           |-> rule["label"],
     group           |-> Get(rule, "_group", None),
     ata             |-> ata_text,
     description     |-> desc,
     remaining_hours |-> rem_hrs,
     remaining_days  |-> rem_days,
     next_due_status |-> status_raw,
     status          |-> status,
     tracked         |-> TRUE,
     tracked_label   |-> Some(rule["label"]),
     rii             |-> rii_flag]

\* an item that carries the CSV's own status column as its status
ListItem_raw_status(clean, group, ata_text, rem_hrs, rem_days, status_raw, status, label, rii_flag) ==
    [label           |-> clean,
     group           |-> group,
     ata             |-> ata_text,
     description     |-> clean,
     next_due_date   |-> None,
     remaining_hours |-> rem_hrs,
     remaining_days  |-> rem_days,
     next_due_status |-> status_raw,
     status          |-> status_raw,
     tracked         |-> ~IsNone(label),
     tracked_label   |-> label,
     rii             |-> rii_flag]

\* the item of an included row of an all fleet, or of a PART row
ListItem(clean, group, ata_text, rem_hrs, rem_days, status_raw, status, label, rii_flag) ==
    [label           |-> clean,
     group           |-> group,
     ata             |-> ata_text,
     description     |-> clean,
     next_due_date   |-> None,
     remaining_hours |-> rem_hrs,
     remaining_days  |-> rem_days,
     next_due_status |-> status_raw,
     status          |-> status,
     tracked         |-> ~IsNone(label),
     tracked_label   |-> label,
     rii             |-> rii_flag]

\* the loop over the rules of a phase fleet: the _phase dict after it
RECURSIVE PhaseSlots(_, _, _, _, _, _, _, _, _)
PhaseSlots(phase, rules, ata_text, desc, rem_hrs, rem_days, status_raw, status, rii_flag) ==
    IF rules = <<>> THEN phase
    ELSE LET rule == Head(rules)
             key  == rule["label"]
             take == /\ ata_matches(ata_text, rule)
                     /\ \/ key \notin DOMAIN phase
                        \/ _more_urgent(rem_hrs, rem_days, phase[key])
             next == IF take
                     THEN Put(phase, key, PhaseItem(rule, ata_text, desc, rem_hrs,
                                                    rem_days, status_raw, status, rii_flag))
                     ELSE phase
         IN  PhaseSlots(next, Tail(rules), ata_text, desc, rem_hrs, rem_days,
                        status_raw, status, rii_flag)

\* the first rule of the list that matches, or None
RECURSIVE FirstMatch(_, _)
FirstMatch(rules, ata_text) ==
    IF rules = <<>> THEN None
    ELSE IF ata_matches(ata_text, Head(rules)) THEN Some(Head(rules))
    ELSE FirstMatch(Tail(rules), ata_text)

\* a record whose airframe hours and report date follow the latest row
aircraft_record_last_wins(ac, reg, fresh) ==
    IF reg \in DOMAIN ac.at
    THEN [ac.at[reg] EXCEPT !.airframe_hours = fresh.airframe_hours,
                            !.airframe_report_date = fresh.airframe_report_date]
    ELSE fresh

\* if reg not in aircraft: aircraft[reg] = {...}; the record of the tail
\* the row goes to
aircraft_record(ac, reg, fresh) ==
    IF reg \in DOMAIN ac.at THEN ac.at[reg] ELSE fresh

\* the body of the loop `for row in rows[1:]`: the aircraft dict after the row
row_step(ac, row, fleet_cfg) ==
    LET inspections == _flatten_inspections(fleet_cfg)
        thresh      == Get(fleet_cfg, "thresholds", EmptyDict)
        comp_win    == Get(thresh, "componentWindow", DefaultComponentWindow)
        fleet_type  == Get(fleet_cfg, "type", "all")
        reg         == Strip(row.reg)
        known       == reg \in DOMAIN ac.at
        fresh       == [airframe_hours       |-> safe_float(row.airframe_hrs),
                        airframe_report_date |-> parse_date(row.airframe_rpt),
                        items                |-> <<>>,
                        _phase               |-> EmptyDict]
        rec         == aircraft_record(ac, reg, fresh)
        ata_text    == Strip(row.ata)
        item_type   == Upper(Strip(row.item_type))
        desc        == Strip(row.desc)
        rem_hrs     == safe_float(row.rem_hrs)
        rem_days    == safe_float(row.rem_days)
        status_raw  == Strip(row.status)
        disp        == Strip(row.disposition)
        rii_flag    == IsSubstr(StrRII, Upper(disp)) \/ IsSubstr(StrRII, Upper(desc))
        status      == classify(rem_days, rem_hrs, thresh)
        windowed    == in_window(rem_hrs, rem_days, status_raw, comp_win)
        hit         == FirstMatch(inspections, ata_text)
        clean_insp  == Strip(DropWordRII(DropParenRII(desc)))
        clean_part  == Strip(DropParenRII(desc))
        rec2 ==
            IF item_type \notin {StrInspection, StrPart} THEN rec
            ELSE IF fleet_type = "phase" /\ item_type = StrInspection
            THEN [rec EXCEPT !._phase = PhaseSlots(@, inspections, ata_text, desc, rem_hrs,
                                                   rem_days, status_raw, status, rii_flag)]
            ELSE IF fleet_type = "all" /\ item_type = StrInspection
            THEN IF ~IsNone(hit) \/ (has_retirement_kw(desc) /\ windowed)
                 THEN [rec EXCEPT !.items = Append(@,
                         ListItem(OrElse(clean_insp, desc),
                                  IF IsNone(hit) THEN None ELSE Get(Val(hit), "_group", None),
                                  ata_text, rem_hrs, rem_days, status_raw, status,
                                  IF IsNone(hit) THEN None ELSE Some(Val(hit)["label"]),
                                  rii_flag))]
                 ELSE rec
            ELSE IF item_type = StrPart /\ windowed
            THEN [rec EXCEPT !.items = Append(@,
                    ListItem(OrElse(clean_part, desc), None, ata_text, rem_hrs, rem_days,
                             status_raw, status, None, rii_flag))]
            ELSE rec
    IN  IF row.ncols <= MaxColIndex \/ reg = <<>> THEN ac
        ELSE [keys |-> IF known THEN ac.keys ELSE Append(ac.keys, reg),
              at   |-> Put(ac.at, reg, rec2)]

\* the slots of a tail from the last rule to the first
RECURSIVE EmitSlotsBackwards(_, _)
EmitSlotsBackwards(phase, rules) ==
    IF rules = <<>> THEN <<>>
    ELSE EmitSlotsBackwards(phase, Tail(rules))
         \o (IF Head(rules)["label"] \in DOMAIN phase
             THEN <<phase[Head(rules)["label"]]>> ELSE <<>>)

\* the slots of a tail in the order of the rules
RECURSIVE EmitSlots(_, _)
EmitSlots(phase, rules) ==
    IF rules = <<>> THEN <<>>
    ELSE (IF Head(rules)["label"] \in DOMAIN phase
          THEN <<phase[Head(rules)["label"]]>> ELSE <<>>)
         \o EmitSlots(phase, Tail(rules))

\* the two loops after the scan: a record keeps airframe_hours,
\* airframe_report_date and items
finalize(ac, fleet_cfg) ==
    LET inspections == _flatten_inspections(fleet_cfg)
        fleet_type  == Get(fleet_cfg, "type", "all")
        items(r)    == IF fleet_type = "phase" THEN EmitSlots(r._phase, inspections)
                       ELSE StableSort(r.items,
                                       [i \in DOMAIN r.items |-> urgency_sort_key(r.items[i])])
    IN  [keys |-> ac.keys,
         at   |-> [t \in DOMAIN ac.at |->
                    [airframe_hours       |-> ac.at[t].airframe_hours,
                     airframe_report_date |-> ac.at[t].airframe_report_date,
                     items                |-> items(ac.at[t])]]]

EmptyAircraft == [keys |-> <<>>, at |-> EmptyDict]

RECURSIVE scan(_, _, _)
scan(ac, rs, fleet_cfg) ==
    IF rs = <<>> THEN ac ELSE scan(row_step(ac, Head(rs), fleet_cfg), Tail(rs), fleet_cfg)

\* parse_fleet_csv on the data rows rs of a file that has a header row
parse_fleet_csv(rs, fleet_cfg) == finalize(scan(EmptyAircraft, rs, fleet_cfg), fleet_cfg)


----------------------------------------------------------------------------
(* Snapshot merger: the weekly branch of build_fleet *)

\* label_order.get(..., 999)
UnknownLabelRank == 999

\* Python truthiness of an Optional[str]
Truthy(o) == ~IsNone(o) /\ Val(o) # <<>>

\* {r["label"]: i for i, r in enumerate(flat_inspections)}: the last index of a label
label_order(flat) ==
    [L \in {flat[k]["label"] : k \in DOMAIN flat} |->
        (CHOOSE k \in DOMAIN flat :
            flat[k]["label"] = L /\ \A m \in DOMAIN flat : flat[m]["label"] = L => m <= k) - 1]

\* the re-sort key that ranks every item alike, so that the sort moves nothing
merge_sort_key_unranked(item, flat) == UnknownLabelRank

\* the key of the re-sort: label_order.get(x.get("tracked_label", ""), 999)
merge_sort_key(item, flat) ==
    LET lbl == Get(item, "tracked_label", Some(<<>>))
    IN  IF ~IsNone(lbl) /\ Val(lbl) \in DOMAIN label_order(flat)
        THEN label_order(flat)[Val(lbl)] ELSE UnknownLabelRank

\* every labelled weekly item appended, the daily labels not consulted
RECURSIVE weekly_additions_unfiltered(_, _)
weekly_additions_unfiltered(witems, daily_labels) ==
    IF witems = <<>> THEN <<>>
    ELSE (IF Truthy(Get(Head(witems), "tracked_label", None))
          THEN <<Head(witems)>> ELSE <<>>)
         \o weekly_additions_unfiltered(Tail(witems), daily_labels)

\* the weekly items appended to a tail of the daily snapshot
RECURSIVE weekly_additions(_, _)
weekly_additions(witems, daily_labels) ==
    IF witems = <<>> THEN <<>>
    ELSE (IF /\ Truthy(Get(Head(witems), "tracked_label", None))
             /\ Val(Head(witems).tracked_label) \notin daily_labels
          THEN <<Head(witems)>> ELSE <<>>)
         \o weekly_additions(Tail(witems), daily_labels)

\* the body of the loop over weekly_aircraft.items() for one tail
merge_tail(ac, tail, wac, flat) ==
    IF tail \notin DOMAIN ac.at
    THEN [keys |-> Append(ac.keys, tail), at |-> Put(ac.at, tail, wac)]
    ELSE LET items        == ac.at[tail].items
             daily_labels == {Val(items[k].tracked_label) :
                                k \in {n \in DOMAIN items :
                                        Truthy(Get(items[n], "tracked_label", None))}}
             joined       == items \o weekly_additions(wac.items, daily_labels)
             sorted       == StableSort(joined,
                                [k \in DOMAIN joined |-> <<merge_sort_key(joined[k], flat), 0>>])
         IN  [keys |-> ac.keys,
              at   |-> [ac.at EXCEPT ![tail] = [@ EXCEPT !.items = sorted]]]

RECURSIVE merge_from(_, _, _, _)
merge_from(ac, wk, order, flat) ==
    IF order = <<>> THEN ac
    ELSE merge_from(merge_tail(ac, Head(order), wk.at[Head(order)], flat),
                    wk, Tail(order), flat)

\* the merge loop of build_fleet
merge_weekly(ac, wk, fleet_cfg) ==
    merge_from(ac, wk, wk.keys, _flatten_inspections(fleet_cfg))

----------------------------------------------------------------------------
(* The flight-hours history tracker *)

\* the days update_history keeps an entry: timedelta(days=90)
RetentionDays == 90

\* date.toordinal(): the days from 0001-01-01, that day being 1
DaysBeforeYear(y) == (y - 1) * 365 + (y - 1) \div 4 - (y - 1) \div 100 + (y - 1) \div 400

RECURSIVE DaysBeforeMonth(_, _)
DaysBeforeMonth(y, m) ==
    IF m = 1 THEN 0 ELSE DaysBeforeMonth(y, m - 1) + DaysInMonth(y, m - 1)

ToOrdinal(date) == DaysBeforeYear(date[1]) + DaysBeforeMonth(date[1], date[2]) + date[3]

\* date.fromordinal(n)
FromOrdinal(n) ==
    LET y    == CHOOSE yy \in (n \div 366)..(n \div 365 + 1) :
                    DaysBeforeYear(yy) < n /\ n <= DaysBeforeYear(yy + 1)
        rest == n - DaysBeforeYear(y)
        m    == CHOOSE mm \in 1..12 :
                    /\ DaysBeforeMonth(y, mm) < rest
                    /\ rest <= DaysBeforeMonth(y, mm) + DaysInMonth(y, mm)
    IN  <<y, m, rest - DaysBeforeMonth(y, m)>>

\* date - timedelta(days=n) and date + timedelta(days=n), on <<year, month, day>>
MinusDays(date, n) == FromOrdinal(ToOrdinal(date) - n)

PlusDays(date, n) == FromOrdinal(ToOrdinal(date) + n)

DigitChar(n) == <<"0","1","2","3","4","5","6","7","8","9">>[n + 1]

\* strftime("%Y-%m-%d"): the text of a date, zero-padded
strftime(date) ==
    LET y == date[1] m == date[2] d == date[3]
    IN  <<DigitChar((y \div 1000) % 10), DigitChar((y \div 100) % 10),
          DigitChar((y \div 10) % 10), DigitChar(y % 10), "-",
          DigitChar(m \div 10), DigitChar(m % 10), "-",
          DigitChar(d \div 10), DigitChar(d % 10)>>

\* the code point of a character of a date text
Ord(c) == IF c = "-" THEN 45 ELSE 48 + DigitVal(c)

\* a >= b on str: the first differing character decides, a prefix is smaller
RECURSIVE StrGE(_, _)
StrGE(a, b) ==
    IF b = <<>> THEN TRUE
    ELSE IF a = <<>> THEN FALSE
    ELSE IF Ord(Head(a)) # Ord(Head(b)) THEN Ord(Head(a)) > Ord(Head(b))
    ELSE StrGE(Tail(a), Tail(b))

\* a > b on str
StrGT(a, b) == StrGE(a, b) /\ a # b

\* the first loop of build_fleet's history step: the first truthy
\* airframe_report_date of the aircraft, in dict order
RECURSIVE report_dt_from(_, _)
report_dt_from(ac, order) ==
    IF order = <<>> THEN None
    ELSE IF Truthy(ac.at[Head(order)].airframe_report_date)
         THEN ac.at[Head(order)].airframe_report_date
         ELSE report_dt_from(ac, Tail(order))

\* the report date of the last aircraft of the map that has one
report_dt_of_last(ac) ==
    report_dt_from(ac, [i \in DOMAIN ac.keys |-> ac.keys[Len(ac.keys) + 1 - i]])

report_dt_of(ac) == report_dt_from(ac, ac.keys)

\* the tails of a snapshot whose airframe_hours is not None
WithHours(ac) == {t \in DOMAIN ac.at : ~IsNone(ac.at[t].airframe_hours)}

\* an entry written only where the tail has none under the key yet
write_entries_keep_existing(h, ac, date_key) ==
    [t \in DOMAIN h \cup WithHours(ac) |->
        IF t \in WithHours(ac) /\ (t \notin DOMAIN h \/ date_key \notin DOMAIN h[t])
        THEN Put(IF t \in DOMAIN h THEN h[t] ELSE EmptyDict, date_key,
                 [hours |-> Val(ac.at[t].airframe_hours), date |-> date_key])
        ELSE h[t]]

\* the hours added to the entry the tail has under the key
write_entries_accumulate(h, ac, date_key) ==
    [t \in DOMAIN h \cup WithHours(ac) |->
        IF t \in WithHours(ac)
        THEN Put(IF t \in DOMAIN h THEN h[t] ELSE EmptyDict, date_key,
                 [hours |-> Val(ac.at[t].airframe_hours)
                              + (IF t \in DOMAIN h /\ date_key \in DOMAIN h[t]
                                 THEN h[t][date_key].hours ELSE 0),
                  date  |-> date_key])
        ELSE h[t]]

\* the first loop of update_history: history[tail][date_key] = {hours, date}
\* for every tail with hours
write_entries(h, ac, date_key) ==
    [t \in DOMAIN h \cup WithHours(ac) |->
        IF t \in WithHours(ac)
        THEN Put(IF t \in DOMAIN h THEN h[t] ELSE EmptyDict, date_key,
                 [hours |-> Val(ac.at[t].airframe_hours), date |-> date_key])
        ELSE h[t]]

\* the entries strictly after the cutoff only
prune_strict(h, cutoff) ==
    [t \in DOMAIN h |-> [d \in {k \in DOMAIN h[t] : StrGT(k, cutoff)} |-> h[t][d]]]

\* the second loop of update_history: every tail's map cut to d >= cutoff
prune(h, cutoff) ==
    [t \in DOMAIN h |-> [d \in {k \in DOMAIN h[t] : StrGE(k, cutoff)} |-> h[t][d]]]

\* update_history, the clock's day an argument
update_history(h, ac, report_dt, now) ==
    LET date_key == strftime(IF Truthy(report_dt) THEN Val(report_dt) ELSE now)
        cutoff   == strftime(MinusDays(now, RetentionDays))
    IN  prune(write_entries(h, ac, date_key), cutoff)

----------------------------------------------------------------------------
(* The FlightAware spend ledger.  Money is counted in thousandths of a     *)
(* dollar, so that 0.005 is 5 and the sums are the exact ones.             *)

\* FA_MONTHLY_CAP_USD = 5.00
FA_MONTHLY_CAP_USD == 5000

\* FA_COST_PER_CALL = 0.005
FA_COST_PER_CALL == 5

\* FA_CAP_SAFETY_FACTOR = 0.90, in hundredths
FA_CAP_SAFETY_FACTOR == 90

\* SpendLedger._month_entry: the month's entry, a zero one if there is none
_month_entry(data) == IF data = EmptyDict THEN [calls |-> 0, usd |-> 0] ELSE data

spend_this_month(data) == _month_entry(data).usd

effective_cap == (FA_MONTHLY_CAP_USD * FA_CAP_SAFETY_FACTOR) \div 100

\* max(0.0, self.effective_cap - self.spend_this_month)
remaining_budget(data) ==
    IF effective_cap - spend_this_month(data) > 0
    THEN effective_cap - spend_this_month(data) ELSE 0

\* int(self.remaining_budget / FA_COST_PER_CALL)
calls_remaining(data) == remaining_budget(data) \div FA_COST_PER_CALL

\* the budget test passing with nothing left
can_afford_with_none_left(data) == calls_remaining(data) >= 0

can_afford(data) == calls_remaining(data) >= 1

\* SpendLedger.record_call: the entry after it, which _save writes to the file
record_call(data) ==
    [calls |-> _month_entry(data).calls + 1,
     usd   |-> _month_entry(data).usd + FA_COST_PER_CALL]

----------------------------------------------------------------------------
(* The build driver: build_fleet from the files of a fleet to its outcome *)

\* raise ValueError(f"CSV appears empty: {filepath}")
Raised == [raised |-> TRUE]

Returned(v) == [raised |-> FALSE, value |-> v]

\* parse_fleet_csv on the rows read_csv_rows returns, the header row
\* included: fewer than two rows raise, rows[1:] are parsed
parse_fleet_file(file_rows, fleet_cfg) ==
    IF Len(file_rows) < 2 THEN Raised
    ELSE Returned(parse_fleet_csv(Tail(file_rows), fleet_cfg))

\* the outcome of build_fleet: None (skipped) or True, with the aircraft
\* written to dashboard.json
Outcome(result, ac) == Returned([result |-> result, aircraft |-> ac])

\* build_fleet once the weekly file is parsed: the merge, then the output
merge_parsed(ac, w, fleet_cfg) ==
    IF w.raised THEN Raised
    ELSE Outcome("True", merge_weekly(ac, w.value, fleet_cfg))

\* build_fleet once the daily file is parsed: the weekly file is parsed
\* only if it exists and the fleet is a phase fleet
after_daily(d, fc) ==
    IF d.raised THEN Raised
    ELSE IF ~IsNone(fc.weekly) /\ Get(fc.cfg, "type", "all") = "phase"
    THEN merge_parsed(d.value, parse_fleet_file(Val(fc.weekly), fc.cfg), fc.cfg)
    ELSE Outcome("True", d.value)

\* build_fleet for a fleet fc = [cfg, daily, weekly], a file being None
\* when it does not exist: None without a daily file, True otherwise,
\* unless a parse raises
build_fleet(fc) ==
    IF IsNone(fc.daily) THEN Outcome("None", EmptyAircraft)
    ELSE after_daily(parse_fleet_file(Val(fc.daily), fc.cfg), fc)

\* the loop body of build_all after build_fleet returned r or raised:
\* True and None are counted, an exception leaves build_all
count_result(l, r) ==
    IF r.raised
    THEN [l EXCEPT !.at = "raised",
                   !.results = Append(@, [result |-> "raised", aircraft |-> EmptyAircraft])]
    ELSE [l EXCEPT !.results = Append(@, r.value),
                   !.ok = IF r.value.result = "True" THEN @ + 1 ELSE @,
                   !.skipped = IF r.value.result = "None" THEN @ + 1 ELSE @]

----------------------------------------------------------------------------
(* The history file.  What json.load finds is tagged with its shape: "map" *)
(* is an object of objects, "flat_map" an object with a value that is no  *)
(* object, "list" any JSON value that is no object at all.                *)

MapValue(h) == [kind |-> "map", value |-> h]

\* load_history: {} when the file is absent or json.load raises, else
\* whatever json.load returned
load_history(file) ==
    IF file.kind \in {"missing", "not_json"} THEN MapValue(EmptyDict) ELSE file

\* update_history on what load_history returned: history[tail] = {},
\* history[tail][date_key] = ..., history.keys() and history[tail].items()
\* raise TypeError or AttributeError on anything but an object of objects
update_loaded(loaded, ac, report_dt, now) ==
    IF loaded.kind = "map"
    THEN Returned(update_history(loaded.value, ac, report_dt, now))
    ELSE Raised

\* a save that keeps what the file holds beside the entries of the run
save_history_merging(file, h) ==
    IF file.kind # "map" THEN h
    ELSE MapValue([t \in DOMAIN file.value \cup DOMAIN h.value |->
            [k \in (IF t \in DOMAIN file.value THEN DOMAIN file.value[t] ELSE {})
                   \cup (IF t \in DOMAIN h.value THEN DOMAIN h.value[t] ELSE {}) |->
                IF t \in DOMAIN h.value /\ k \in DOMAIN h.value[t]
                THEN h.value[t][k] ELSE file.value[t][k]]])

\* save_history: json.dump of the map over the file, whatever it held
save_history(file, h) == h

----------------------------------------------------------------------------
(* The summary of the dashboard: the tail of build_fleet *)

\* all_items: the items of every aircraft, in the order of the map
RECURSIVE all_items(_, _)
all_items(ac, order) ==
    IF order = <<>> THEN <<>>
    ELSE ac.at[Head(order)].items \o all_items(ac, Tail(order))

\* the counted statuses
CountedStatuses == {"OVERDUE", "CRITICAL", "COMING_DUE", "OK"}

\* counts over the tracked items only
counts_tracked_only(items) ==
    [s \in CountedStatuses |->
        Cardinality({k \in DOMAIN items : items[k].status = s /\ items[k].tracked})]

\* counts[s] += 1 for every item whose status s is one of the four
counts(items) ==
    [s \in CountedStatuses |-> Cardinality({k \in DOMAIN items : items[k].status = s})]

\* "summary": {**counts, "total_tracked": sum(counts.values())}
summary(ac) ==
    LET c == counts(all_items(ac, ac.keys))
    IN  [OVERDUE |-> c["OVERDUE"], CRITICAL |-> c["CRITICAL"],
         COMING_DUE |-> c["COMING_DUE"], OK |-> c["OK"],
         total_tracked |-> c["OVERDUE"] + c["CRITICAL"] + c["COMING_DUE"] + c["OK"]]

----------------------------------------------------------------------------
(* The position fetcher: ADSB.lol first, FlightAware as the fallback *)

\* ADSB_MAX_AGE_SECONDS = 300
ADSB_MAX_AGE_SECONDS == 300

\* a query that never gives a position
fetch_adsblol_nothing(answer) == None

\* fetch_adsblol on the answer to its request: None when the request
\* failed, the status is not 200, no aircraft is listed, a coordinate is
\* missing or the position is older than the limit; a result otherwise
fetch_adsblol(answer) ==
    IF answer.kind # "http" \/ answer.status # 200 THEN None
    ELSE IF answer.ac = <<>> THEN None
    ELSE IF IsNone(Head(answer.ac).lat) \/ IsNone(Head(answer.ac).lon) THEN None
    ELSE IF Head(answer.ac).seen_pos > ADSB_MAX_AGE_SECONDS THEN None
    ELSE Some([source |-> "adsb_lol"])

----------------------------------------------------------------------------
(* Bounds *)

\* largest remaining value of the classifier's small range
MaxRemaining == 5

\* most data rows of one CSV
MaxRows == 2

\* most builds of one history file
MaxRuns == 2

\* most days the clock advances over the builds
MaxElapsed == 6

\* longest text given to the normalizer
MaxTextLen == 4

\* most calls the ledger has room for when two fetcher runs start together
MaxHeadroom == 2

\* largest number of fleets in fleet_config.json
MaxFleets == 2

\* number of tails a fetcher run goes through
MaxTails == 2

----------------------------------------------------------------------------
(* The rows and fleet configurations the runs draw from *)

RowHundredA ==
    [ncols |-> 64, reg |-> <<"N","1">>, airframe_rpt |-> <<"0","1","/","0","5","/","2","0","2","4">>,
     airframe_hrs |-> <<"1",",","2","0","0">>,
     ata |-> <<"0","5"," ","1","0","0","H","R">>,
     item_type |-> <<"I","N","S","P","E","C","T","I","O","N">>, disposition |-> <<>>,
     desc |-> <<"1","0","0"," ","H","R"," ","I","N","S","P">>, rem_days |-> <<"1","0">>, rem_hrs |-> <<"5","0">>, status |-> <<>>]

RowHundredDays ==
    [ncols |-> 64, reg |-> <<" ","N","1">>, airframe_rpt |-> <<"2","0","2","4","-","0","1","-","0","6">>,
     airframe_hrs |-> <<"1",",","2","5","0">>,
     ata |-> <<"0","5"," ","1","0","0","h","r">>,
     item_type |-> <<"I","n","s","p","e","c","t","i","o","n">>, disposition |-> <<"R","I","I">>,
     desc |-> <<"(","R","I","I",")"," ","1","0","0"," ","H","R"," ","F","I","L","T","E","R">>, rem_days |-> <<"3">>, rem_hrs |-> <<>>, status |-> <<>>]

RowHundredB ==
    [ncols |-> 64, reg |-> <<"N","1">>, airframe_rpt |-> <<"N","/","A">>,
     airframe_hrs |-> <<>>,
     ata |-> <<"0","5"," ","1","0","0","H","R">>,
     item_type |-> <<"I","N","S","P","E","C","T","I","O","N">>, disposition |-> <<>>,
     desc |-> <<"1","0","0"," ","H","R"," ","B">>, rem_days |-> <<"1","0">>, rem_hrs |-> <<"5","0">>, status |-> <<>>]

RowBoth ==
    [ncols |-> 64, reg |-> <<"N","1">>, airframe_rpt |-> <<"0","1","/","0","5","/","2","0","2","4">>,
     airframe_hrs |-> <<"1",",","2","0","0">>,
     ata |-> <<"0","5"," ","1","0","0","H","R","/","1","2","M","O",".","I","N","S","P","E","C","T","I","O","N">>,
     item_type |-> <<"I","N","S","P","E","C","T","I","O","N">>, disposition |-> <<>>,
     desc |-> <<"r","i","i"," ","1","2"," ","M","O","N","T","H">>, rem_days |-> <<>>, rem_hrs |-> <<"1","0">>, status |-> <<>>]

RowInterim ==
    [ncols |-> 64, reg |-> <<"N","1">>, airframe_rpt |-> <<"0","1","/","0","5","/","2","0","2","4">>,
     airframe_hrs |-> <<"1",",","2","0","0">>,
     ata |-> <<"6","3"," ","1","1","-","2","0"," ","I","N","T","E","R","I","M">>,
     item_type |-> <<"I","N","S","P","E","C","T","I","O","N">>, disposition |-> <<>>,
     desc |-> <<"O","V","E","R","H","A","U","L"," ","G","E","A","R","B","O","X">>, rem_days |-> <<"6","1">>, rem_hrs |-> <<>>, status |-> <<"P","a","s","t"," ","D","u","e">>]

RowPart ==
    [ncols |-> 64, reg |-> <<"N","1">>, airframe_rpt |-> <<"0","1","/","0","5","/","2","0","2","4">>,
     airframe_hrs |-> <<"1",",","2","0","0">>,
     ata |-> <<"2","4"," ","B","A","T","T">>,
     item_type |-> <<"p","a","r","t">>, disposition |-> <<>>,
     desc |-> <<"(","r","i","i",")"," ","B","A","T","T","E","R","Y">>, rem_days |-> <<>>, rem_hrs |-> <<"6","0">>, status |-> <<>>]

RowCompEdge ==
    [ncols |-> 64, reg |-> <<"N","2">>, airframe_rpt |-> <<"1","/","7","/","2","4">>,
     airframe_hrs |-> <<"3","0","0">>,
     ata |-> <<"7","9"," ","O","I","L">>,
     item_type |-> <<"I","N","S","P","E","C","T","I","O","N">>, disposition |-> <<>>,
     desc |-> <<"C","H","A","N","G","E"," ","O","I","L">>, rem_days |-> <<>>, rem_hrs |-> <<"6","0">>, status |-> <<>>]

RowPlain ==
    [ncols |-> 64, reg |-> <<"N","2">>, airframe_rpt |-> <<"1","/","7","/","2","4">>,
     airframe_hrs |-> <<"3","0","0">>,
     ata |-> <<"7","2"," ","B","O","R","E","S","C","O","P","E">>,
     item_type |-> <<"I","N","S","P","E","C","T","I","O","N">>, disposition |-> <<>>,
     desc |-> <<"B","O","R","E","S","C","O","P","E">>, rem_days |-> <<>>, rem_hrs |-> <<"5">>, status |-> <<>>]

RowOther ==
    [ncols |-> 64, reg |-> <<"N","2">>, airframe_rpt |-> <<>>,
     airframe_hrs |-> <<"3","1","0">>,
     ata |-> <<"0","5"," ","1","0","0","H","R">>,
     item_type |-> <<"A","D">>, disposition |-> <<>>,
     desc |-> <<"A","D"," ","N","O","T","E">>, rem_days |-> <<"1">>, rem_hrs |-> <<"1">>, status |-> <<>>]

RowNarrow ==
    [ncols |-> 10, reg |-> <<"N","1">>, airframe_rpt |-> <<>>,
     airframe_hrs |-> <<"9">>,
     ata |-> <<"0","5"," ","1","0","0","H","R">>,
     item_type |-> <<"I","N","S","P","E","C","T","I","O","N">>, disposition |-> <<>>,
     desc |-> <<"S","H","O","R","T">>, rem_days |-> <<"1">>, rem_hrs |-> <<"1">>, status |-> <<>>]

RowTwelve ==
    [ncols |-> 64, reg |-> <<"N","2">>, airframe_rpt |-> <<"1","/","7","/","2","4">>,
     airframe_hrs |-> <<"3","0","0">>,
     ata |-> <<"0","5"," ","1","2","M","O",".","I","N","S","P","E","C","T","I","O","N">>,
     item_type |-> <<"I","N","S","P","E","C","T","I","O","N">>, disposition |-> <<>>,
     desc |-> <<"1","2"," ","M","O","N","T","H">>, rem_days |-> <<"-","3">>, rem_hrs |-> <<>>, status |-> <<>>]

CfgPhaseFlat ==
    [type |-> "phase",
     inspections |-> <<[label |-> <<"1","2","M","O">>, match |-> <<"1","2","M","O","-","I","N","S","P","E","C","T","I","O","N">>, mode |-> "strip-chapter"], [label |-> <<"1","0","0","H","R">>, ataMatch |-> <<"1","0","0","H","R">>]>>]

CfgPhaseGrouped ==
    [type |-> "phase",
     inspections |-> <<[label |-> <<"1","2","M","O">>, match |-> <<"1","2","M","O","-","I","N","S","P","E","C","T","I","O","N">>, mode |-> "strip-chapter"]>>,
     inspection_groups |-> <<[label |-> <<"P","h","a","s","e">>, inspections |-> <<[label |-> <<"1","0","0","H","R">>, ataMatch |-> <<"1","0","0","H","R">>], [label |-> <<"1","2","M","O">>, match |-> <<"1","2","M","O","-","I","N","S","P","E","C","T","I","O","N">>, mode |-> "strip-chapter"]>>], [label |-> <<"I","n","t","e","r","i","m">>, inspections |-> <<[label |-> <<"1","0","0","H","R">>, ataMatch |-> <<"1","1","-","2","0">>, mode |-> "exact"]>>]>>,
     thresholds |-> [criticalHrs |-> 40]]

CfgAll ==
    [inspections |-> <<[label |-> <<"1","0","0","H","R">>, ataMatch |-> <<"1","0","0","H","R">>], [label |-> <<"1","2","M","O">>, match |-> <<"1","2","M","O","-","I","N","S","P","E","C","T","I","O","N">>, mode |-> "strip-chapter"]>>,
     thresholds |-> [componentWindow |-> 50, criticalDays |-> 5]]

CfgAllBare ==
    [type |-> "all"]

\* the header row of a due-list export
HeaderRow ==
    [ncols |-> 64, reg |-> <<"R","e","g">>, airframe_rpt |-> <<"R","p","t">>,
     airframe_hrs |-> <<"H","r","s">>, ata |-> <<"A","T","A">>,
     item_type |-> <<"T","y","p","e">>, disposition |-> <<>>,
     desc |-> <<"D","e","s","c">>, rem_days |-> <<"D","a","y","s">>,
     rem_hrs |-> <<"H","r","s">>, status |-> <<>>]

\* a tracked inspection whose dates and numbers cannot be parsed
RowGarbled ==
    [ncols |-> 64, reg |-> <<"N","1">>, airframe_rpt |-> <<"?","/","?">>,
     airframe_hrs |-> <<"n","/","a">>,
     ata |-> <<"0","5"," ","1","0","0","H","R">>,
     item_type |-> <<"I","N","S","P","E","C","T","I","O","N">>, disposition |-> <<>>,
     desc |-> <<"1","0","0"," ","H","O","U","R">>, rem_days |-> <<"x">>, rem_hrs |-> <<"-","-">>, status |-> <<>>]

\* a phase fleet with no inspection rule
CfgPhaseBare ==
    [type |-> "phase"]

\* the daily file of a fleet: absent, without any row, header only, with
\* a too-narrow row and an unparseable one, or well formed
DailyFiles ==
    {None, Some(<<>>), Some(<<HeaderRow>>),
     Some(<<HeaderRow, RowNarrow, RowGarbled>>),
     Some(<<HeaderRow, RowHundredA>>)}

\* the weekly file of a fleet: absent, header only, or well formed
WeeklyFiles ==
    {None, Some(<<HeaderRow>>), Some(<<HeaderRow, RowTwelve, RowHundredDays>>)}

FleetConfigs == {CfgPhaseFlat, CfgAll, CfgPhaseBare}

FleetInputs == [cfg : FleetConfigs, daily : DailyFiles, weekly : WeeklyFiles]

\* config["fleets"]: up to n fleets, each with its own data files
RECURSIVE FleetLists(_)
FleetLists(n) ==
    IF n = 0 THEN {<<>>}
    ELSE FleetLists(n - 1) \cup {Append(fs, f) : fs \in FleetLists(n - 1), f \in FleetInputs}

\* a part in the window whose description opens with the word RII
RowPartWord ==
    [ncols |-> 64, reg |-> <<"N","1">>, airframe_rpt |-> <<"0","1","/","0","5","/","2","0","2","4">>,
     airframe_hrs |-> <<"1",",","2","0","0">>,
     ata |-> <<"6","2"," ","H","U","B">>,
     item_type |-> <<"P","A","R","T">>, disposition |-> <<>>,
     desc |-> <<"r","i","i"," ","H","U","B">>, rem_days |-> <<>>, rem_hrs |-> <<"1","0">>, status |-> <<>>]

\* a tracked inspection whose description opens with the word RII
RowInspWord ==
    [ncols |-> 64, reg |-> <<"N","2">>, airframe_rpt |-> <<"1","/","7","/","2","4">>,
     airframe_hrs |-> <<"3","0","0">>,
     ata |-> <<"0","5"," ","1","0","0","H","R">>,
     item_type |-> <<"I","N","S","P","E","C","T","I","O","N">>, disposition |-> <<>>,
     desc |-> <<"R","i","i"," "," ","1","0","0","H">>, rem_days |-> <<"7">>, rem_hrs |-> <<>>, status |-> <<>>]

RowUniverse ==
    {RowHundredA, RowHundredDays, RowHundredB, RowBoth,
     RowInterim, RowPart, RowCompEdge, RowPlain,
     RowOther, RowNarrow, RowTwelve, RowPartWord, RowInspWord}

Configs == {CfgPhaseFlat, CfgPhaseGrouped, CfgAll, CfgAllBare}

\* the rows the two snapshots of a build draw from
SnapshotRows ==
    {RowHundredA, RowHundredDays, RowBoth, RowInterim, RowTwelve, RowGarbled,
     RowPartWord}

\* the data rows of a CSV: at least one, at most n
RECURSIVE RowSeqs(_, _)
RowSeqs(U, n) ==
    IF n = 0 THEN {<<>>}
    ELSE RowSeqs(U, n - 1) \cup {Append(s, r) : s \in RowSeqs(U, n - 1), r \in U}

Snapshots == RowSeqs(SnapshotRows, MaxRows) \ {<<>>}

BuildConfigs == {CfgPhaseFlat, CfgPhaseGrouped, CfgAll}

\* the day of the first build: 90 days back is New Year's Eve, across a leap day
StartDay == <<2024, 3, 30>>

\* the days the clock may advance between two builds
ClockSteps == {1, 5}

\* the age in days of a snapshot's report date on the day of the build
ReportAges == {89, 90, 91}

\* the two tails of the builds
TailOne == <<"N", "1">>

TailTwo == <<"N", "2">>

\* a parsed aircraft record with no items
Airframe(hours, report_date) ==
    [airframe_hours |-> hours, airframe_report_date |-> report_date, items |-> <<>>]

\* the snapshots a build may parse on a day: the report date, if the CSV
\* has one, is on the last aircraft of the file
FleetOf(tails, hours, report_date) ==
    [keys |-> tails,
     at   |-> [t \in {tails[k] : k \in DOMAIN tails} |->
                Airframe(hours[t],
                         IF t = tails[Len(tails)] THEN report_date ELSE None)]]

HistoryFleets(now) ==
    {FleetOf(f[1], f[2], rd) :
        f \in {<< <<TailOne, TailTwo>>, [t \in {TailOne, TailTwo} |-> IF t = TailOne THEN Some(100) ELSE None] >>,
               << <<TailTwo, TailOne>>, [t \in {TailOne, TailTwo} |-> IF t = TailOne THEN Some(105) ELSE Some(200)] >>},
        rd \in {None} \cup {Some(MinusDays(now, a)) : a \in ReportAges}}

\* a history file earlier builds left: entries 89, 90, 91 and 95 days old
\* on the first day
SeedHistory ==
    [t \in {TailOne, TailTwo} |->
        IF t = TailOne
        THEN [d \in {strftime(MinusDays(StartDay, a)) : a \in {89, 90, 91, 95}} |->
                [hours |-> 90, date |-> d]]
        ELSE [d \in {strftime(MinusDays(StartDay, 91))} |-> [hours |-> 190, date |-> d]]]

----------------------------------------------------------------------------
(* The classifier applied to drawn arguments *)

\* no fetcher run and no build_all in the picture
NoFetch == ledger_file = EmptyDict /\ ledgers = EmptyDict /\ issued = 0

NoLoop ==
    loop = EmptyDict /\ history_file = EmptyDict /\ builds = EmptyDict /\ sent = <<>>

Idle == [op |-> "none"]

ClassifyThresholds ==
    {EmptyDict,
     [criticalDays |-> 2],
     [criticalDays |-> 1, comingDays |-> 3, criticalHrs |-> 2, comingHrs |-> 4]}

RemainingValues ==
    {None} \cup {Some(n) : n \in -1..MaxRemaining}
           \cup {Some(n) : n \in {7, 8, 25, 26, 30, 31, 40, 100, 101}}

InitClassify ==
    /\ pc = "classify"
    /\ args \in [days : RemainingValues, hours : RemainingValues, thresh : ClassifyThresholds]
    /\ ret = None
    /\ cfg = EmptyDict /\ rows = <<>> /\ aircraft = EmptyAircraft
    /\ daily = EmptyAircraft /\ weekly = EmptyAircraft
    /\ history = EmptyDict /\ today = StartDay /\ prior = EmptyDict /\ call = Idle
    /\ NoFetch /\ NoLoop

CallClassify ==
    /\ pc = "classify"
    /\ ret' = Some(classify(args.days, args.hours, args.thresh))
    /\ pc' = "classified"
    /\ UNCHANGED <<ledger_file, ledgers, issued, loop, history_file, builds, sent>>
    /\ UNCHANGED <<cfg, args, rows, aircraft, daily, weekly, history, today, prior, call>>

NextClassify == CallClassify

SpecClassify == InitClassify /\ [][NextClassify]_vars

----------------------------------------------------------------------------
(* The ATA matcher applied to drawn texts and rules *)

\* ATA cells of a CSV; the empty text stands for a missing cell too
AtaSources ==
    {<<>>,
     <<" "," ">>,
     <<"6","3"," ","1","1","-","2","0"," ","I","N","T","E","R","I","M">>,
     <<"0","5"," ","1","0","0","H","R">>,
     <<"0","5"," ","1","2","m","o",".","i","n","s","p","e","c","t","i","o","n">>,
     <<"5"," ","1","0","0","H","R">>,
     <<"1","0","0","H","R">>,
     <<"6","3">>,
     <<"7","2"," ","7","2","/","3","0","0">>,
     <<" ","0","5"," "," ","1","2","M","O"," ","-"," ","I","n","s","p","e","c","t","i","o","n"," ">>}

\* the texts of a rule's "ataMatch" or "match"
RuleTexts ==
    {<<>>,
     <<" ">>,
     <<"6","3">>,
     <<"1","1","-","2","0">>,
     <<"1","0","0","h","r">>,
     <<"1","2","M","O","-","I","N","S","P","E","C","T","I","O","N">>,
     <<"0","5"," ","1","0","0","H","R">>,
     <<"7","2","/","3","0","0">>,
     <<"i","n","t","e","r","i","m">>,
     <<"6","3"," ","1","1","-","2","0"," ","I","N","T","E","R","I","M">>,
     <<"0","5"," ","1","2","M","O","/","I","N","S","P","E","C","T","I","O","N">>}

\* rules with the text under either key or under none, with and without a mode
MatchRules ==
    LET modes == {"contains", "exact", "strip-chapter"}
        bare  == {[label |-> <<"L">>]}
                    \cup {[label |-> <<"L">>, ataMatch |-> t] : t \in RuleTexts}
                    \cup {[label |-> <<"L">>, match |-> t] : t \in RuleTexts}
    IN  bare \cup {[mode |-> m] @@ r : m \in modes, r \in bare}

InitMatch ==
    /\ pc = "match"
    /\ args \in [ata_val : AtaSources, rule : MatchRules]
    /\ ret = None
    /\ cfg = EmptyDict /\ rows = <<>> /\ aircraft = EmptyAircraft
    /\ daily = EmptyAircraft /\ weekly = EmptyAircraft
    /\ history = EmptyDict /\ today = StartDay /\ prior = EmptyDict /\ call = Idle
    /\ NoFetch /\ NoLoop

CallMatch ==
    /\ pc = "match"
    /\ ret' = Some(ata_matches(args.ata_val, args.rule))
    /\ pc' = "matched"
    /\ UNCHANGED <<ledger_file, ledgers, issued, loop, history_file, builds, sent>>
    /\ UNCHANGED <<cfg, args, rows, aircraft, daily, weekly, history, today, prior, call>>

NextMatch == CallMatch

SpecMatch == InitMatch /\ [][NextMatch]_vars

----------------------------------------------------------------------------
(* The normalizer and the chapter stripper applied to every short text *)

\* letters of both cases, a digit, the space and the three punctuation marks
TextAlphabet == {"a", "B", "1", " ", "-", ".", "/"}

RECURSIVE TextsUpTo(_)
TextsUpTo(n) ==
    IF n = 0 THEN {<<>>}
    ELSE TextsUpTo(n - 1) \cup {Append(s, c) : s \in TextsUpTo(n - 1), c \in TextAlphabet}

InitNormalize ==
    /\ pc = "normalize"
    /\ args \in [x : TextsUpTo(MaxTextLen)]
    /\ ret = None
    /\ cfg = EmptyDict /\ rows = <<>> /\ aircraft = EmptyAircraft
    /\ daily = EmptyAircraft /\ weekly = EmptyAircraft
    /\ history = EmptyDict /\ today = StartDay /\ prior = EmptyDict /\ call = Idle
    /\ NoFetch /\ NoLoop

\* a = norm_ata(x); a_stripped = strip_ata_chapter(a)
CallNormalize ==
    /\ pc = "normalize"
    /\ ret' = [a |-> norm_ata(args.x), a_stripped |-> strip_ata_chapter(norm_ata(args.x))]
    /\ pc' = "normalized"
    /\ UNCHANGED <<ledger_file, ledgers, issued, loop, history_file, builds, sent>>
    /\ UNCHANGED <<cfg, args, rows, aircraft, daily, weekly, history, today, prior, call>>

NextNormalize == CallNormalize

SpecNormalize == InitNormalize /\ [][NextNormalize]_vars

----------------------------------------------------------------------------
(* One run of parse_fleet_csv, row by row *)

InitParse ==
    /\ pc = "scan"
    /\ cfg \in Configs
    /\ rows = <<>>
    /\ aircraft = EmptyAircraft
    /\ args = EmptyDict /\ ret = None
    /\ daily = EmptyAircraft /\ weekly = EmptyAircraft
    /\ history = EmptyDict /\ today = StartDay /\ prior = EmptyDict /\ call = Idle
    /\ NoFetch /\ NoLoop

\* one iteration of the loop over the data rows
ReadRow ==
    /\ pc = "scan"
    /\ Len(rows) < MaxRows
    /\ \E r \in RowUniverse :
        /\ rows' = Append(rows, r)
        /\ aircraft' = row_step(aircraft, r, cfg)
    /\ UNCHANGED <<ledger_file, ledgers, issued, loop, history_file, builds, sent>>
    /\ UNCHANGED <<pc, cfg, args, ret, daily, weekly, history, today, prior, call>>

\* the end of the file: the finalisation loops and the return
Finalize ==
    /\ pc = "scan"
    /\ Len(rows) >= 1
    /\ aircraft' = finalize(aircraft, cfg)
    /\ pc' = "parsed"
    /\ UNCHANGED <<ledger_file, ledgers, issued, loop, history_file, builds, sent>>
    /\ UNCHANGED <<cfg, args, ret, rows, daily, weekly, history, today, prior, call>>

NextParse == ReadRow \/ Finalize

SpecParse == InitParse /\ [][NextParse]_vars

----------------------------------------------------------------------------
(* One run of build_fleet: the two parses and the merge *)

InitBuild ==
    /\ pc = "start"
    /\ cfg \in BuildConfigs
    /\ rows = <<>>
    /\ aircraft = EmptyAircraft
    /\ args = EmptyDict /\ ret = None
    /\ daily = EmptyAircraft /\ weekly = EmptyAircraft
    /\ history = EmptyDict /\ today = StartDay /\ prior = EmptyDict /\ call = Idle
    /\ NoFetch /\ NoLoop

\* aircraft = parse_fleet_csv(daily_csv, fleet_cfg)
ParseDaily ==
    /\ pc = "start"
    /\ \E rs \in Snapshots :
        /\ aircraft' = parse_fleet_csv(rs, cfg)
        /\ daily' = aircraft'
    /\ pc' = "daily_parsed"
    /\ UNCHANGED <<ledger_file, ledgers, issued, loop, history_file, builds, sent>>
    /\ UNCHANGED <<cfg, args, ret, rows, weekly, history, today, prior, call>>

\* weekly_csv.exists() and fleet_type == "phase": the weekly file is parsed
ParseWeekly ==
    /\ pc = "daily_parsed"
    /\ Get(cfg, "type", "all") = "phase"
    /\ \E rs \in Snapshots : weekly' = parse_fleet_csv(rs, cfg)
    /\ pc' = "weekly_parsed"
    /\ UNCHANGED <<ledger_file, ledgers, issued, loop, history_file, builds, sent>>
    /\ UNCHANGED <<cfg, args, ret, rows, aircraft, daily, history, today, prior, call>>

\* the merge loop over weekly_aircraft
MergeWeekly ==
    /\ pc = "weekly_parsed"
    /\ aircraft' = merge_weekly(aircraft, weekly, cfg)
    /\ pc' = "merged"
    /\ UNCHANGED <<ledger_file, ledgers, issued, loop, history_file, builds, sent>>
    /\ UNCHANGED <<cfg, args, ret, rows, daily, weekly, history, today, prior, call>>

\* no weekly file, or not a phase fleet: the daily snapshot stands
SkipWeekly ==
    /\ pc = "daily_parsed"
    /\ pc' = "unmerged"
    /\ UNCHANGED <<ledger_file, ledgers, issued, loop, history_file, builds, sent>>
    /\ UNCHANGED <<cfg, args, ret, rows, aircraft, daily, weekly, history, today, prior, call>>

\* the summary of the output and the write of dashboard.json
WriteDashboard ==
    /\ pc \in {"merged", "unmerged"}
    /\ ret' = Some(summary(aircraft))
    /\ pc' = IF pc = "merged" THEN "written_merged" ELSE "written"
    /\ UNCHANGED <<ledger_file, ledgers, issued, loop, history_file, builds, sent>>
    /\ UNCHANGED <<cfg, args, rows, aircraft, daily, weekly, history, today, prior, call>>

NextBuild == ParseDaily \/ ParseWeekly \/ MergeWeekly \/ SkipWeekly \/ WriteDashboard

SpecBuild == InitBuild /\ [][NextBuild]_vars

----------------------------------------------------------------------------
(* Builds of one fleet over the days: the history step of build_fleet *)

\* pc counts the builds done; the history file is absent or left by earlier builds
InitHistory ==
    /\ pc = 0
    /\ cfg = CfgPhaseFlat
    /\ rows = <<>>
    /\ aircraft = EmptyAircraft
    /\ args = EmptyDict /\ ret = None
    /\ daily = EmptyAircraft /\ weekly = EmptyAircraft
    /\ history \in {EmptyDict, SeedHistory}
    /\ today = StartDay
    /\ prior = EmptyDict /\ call = Idle
    /\ NoFetch /\ NoLoop

\* days pass between two builds
Tick ==
    /\ \E n \in ClockSteps :
        /\ today' = PlusDays(today, n)
        /\ today' \in {PlusDays(StartDay, k) : k \in 0..MaxElapsed}
    /\ UNCHANGED <<ledger_file, ledgers, issued, loop, history_file, builds, sent>>
    /\ UNCHANGED <<pc, cfg, args, ret, rows, aircraft, daily, weekly, history, prior, call>>

\* load_history, update_history and save_history of one build
UpdateHistory ==
    /\ pc < MaxRuns
    /\ \E ac \in HistoryFleets(today) :
        /\ aircraft' = ac
        /\ history' = update_history(history, ac, report_dt_of(ac), today)
        /\ call' = [op        |-> "update_history",
                    aircraft  |-> ac,
                    report_dt |-> report_dt_of(ac),
                    today     |-> today,
                    repeat    |-> /\ call.op = "update_history"
                                  /\ call.aircraft = ac
                                  /\ call.today = today]
    /\ prior' = history
    /\ pc' = pc + 1
    /\ UNCHANGED <<ledger_file, ledgers, issued, loop, history_file, builds, sent>>
    /\ UNCHANGED <<cfg, args, ret, rows, daily, weekly, today>>

NextHistory == Tick \/ UpdateHistory

SpecHistory == InitHistory /\ [][NextHistory]_vars

----------------------------------------------------------------------------
(* Fetcher runs on one spend ledger file, within one calendar month *)

\* the fetcher processes
Runners == {1, 2}

\* how a run was started: with an API key, without one, or with --dry-run
RunModes == {"live", "no_key", "dry_run"}

\* the calls the safety cap pays for
CallBudget == effective_cap \div FA_COST_PER_CALL

NoRun == [at |-> "idle", data |-> EmptyDict, mode |-> "live", last |-> "none"]

Others == <<pc, cfg, args, ret, rows, aircraft, daily, weekly, history, today,
            prior, call, loop, history_file, builds, sent>>

InitFetchCommon ==
    /\ pc = "fetch"
    /\ cfg = EmptyDict /\ args = EmptyDict /\ ret = None
    /\ rows = <<>> /\ aircraft = EmptyAircraft
    /\ daily = EmptyAircraft /\ weekly = EmptyAircraft
    /\ history = EmptyDict /\ today = StartDay /\ prior = EmptyDict /\ call = Idle
    /\ NoLoop
    /\ ledgers = [r \in Runners |-> NoRun]

\* main: ledger = SpendLedger(path) reads the file into the object
OpenLedger(r) ==
    /\ ledgers[r].at = "idle"
    /\ \E m \in RunModes :
        ledgers' = [ledgers EXCEPT ![r] =
                        [at |-> "running", data |-> ledger_file, mode |-> m, last |-> "none"]]
    /\ UNCHANGED <<ledger_file, issued>>
    /\ UNCHANGED Others

\* fetch_flightaware up to and including ledger.record_call()
Pay(r) ==
    /\ ledgers[r].at = "running"
    /\ IF ~can_afford(ledgers[r].data)
       THEN /\ ledgers' = [ledgers EXCEPT ![r].last = "cap_reached"]
            /\ UNCHANGED ledger_file
       ELSE IF ledgers[r].mode # "live"
       THEN /\ ledgers' = [ledgers EXCEPT ![r].last = ledgers[r].mode]
            /\ UNCHANGED ledger_file
       ELSE /\ ledgers' = [ledgers EXCEPT ![r].at = "requesting",
                                          ![r].data = record_call(@)]
            /\ ledger_file' = record_call(ledgers[r].data)
    /\ UNCHANGED issued
    /\ UNCHANGED Others

\* fetch_flightaware from requests.get on: the request is sent, and answers or fails
Request(r) ==
    /\ ledgers[r].at = "requesting"
    /\ issued' = issued + 1
    /\ \E outcome \in {"answered", "failed"} :
        ledgers' = [ledgers EXCEPT ![r].at = "running", ![r].last = outcome]
    /\ UNCHANGED ledger_file
    /\ UNCHANGED Others

\* main returns: the process and its ledger object are gone
CloseLedger(r) ==
    /\ ledgers[r].at = "running"
    /\ ledgers' = [ledgers EXCEPT ![r] = NoRun]
    /\ UNCHANGED <<ledger_file, issued>>
    /\ UNCHANGED Others

\* runs one after another, from no ledger file
InitLedger == InitFetchCommon /\ ledger_file = EmptyDict /\ issued = 0

StartAlone == \E r \in Runners : (\A q \in Runners : ledgers[q].at = "idle") /\ OpenLedger(r)

FetchFlightaware == \E r \in Runners : Pay(r)

SendRequest == \E r \in Runners : Request(r)

EndRun == \E r \in Runners : CloseLedger(r)

NextLedger == StartAlone \/ FetchFlightaware \/ SendRequest \/ EndRun

SpecLedger == InitLedger /\ [][NextLedger]_vars

\* runs that may overlap, on a ledger earlier runs have filled up to a few calls
InitShared ==
    /\ InitFetchCommon
    /\ \E h \in 1..MaxHeadroom :
        /\ ledger_file = [calls |-> CallBudget - h,
                          usd   |-> (CallBudget - h) * FA_COST_PER_CALL]
        /\ issued = CallBudget - h

StartAnytime == \E r \in Runners : OpenLedger(r)

NextShared == StartAnytime \/ FetchFlightaware \/ SendRequest \/ EndRun

SpecShared == InitShared /\ [][NextShared]_vars

----------------------------------------------------------------------------
(* One fetcher run over its tails: fetch_aircraft for each *)

\* what ADSB.lol may answer: no answer, 404, a server error, an empty
\* list, an aircraft without latitude, and positions of different ages
AdsbAnswers ==
    {[kind |-> "error"]}
    \cup {[kind |-> "http", status |-> c, ac |-> <<>>] : c \in {404, 500, 200}}
    \cup {[kind |-> "http", status |-> 200,
           ac |-> <<[lat |-> None, lon |-> Some(1), seen_pos |-> 0]>>]}
    \cup {[kind |-> "http", status |-> 200,
           ac |-> <<[lat |-> Some(1), lon |-> Some(1), seen_pos |-> age]>>] :
             age \in {0, ADSB_MAX_AGE_SECONDS, ADSB_MAX_AGE_SECONDS + 1}}

\* the ledger file the run finds: none, or one some calls short of the cap
LedgersFound ==
    {EmptyDict} \cup {[calls |-> CallBudget - h, usd |-> (CallBudget - h) * FA_COST_PER_CALL] :
                        h \in 0..MaxHeadroom}

\* the run is process 1: its ledger object, its mode, the tail it is at
\* and the source of every tail done
InitSweep ==
    /\ pc = "fetch"
    /\ cfg = EmptyDict /\ args = EmptyDict /\ ret = None
    /\ rows = <<>> /\ aircraft = EmptyAircraft
    /\ daily = EmptyAircraft /\ weekly = EmptyAircraft
    /\ history = EmptyDict /\ today = StartDay /\ prior = EmptyDict /\ call = Idle
    /\ loop = EmptyDict /\ history_file = EmptyDict /\ builds = EmptyDict
    /\ sent = <<>>
    /\ ledger_file \in LedgersFound
    /\ issued = _month_entry(ledger_file).calls
    /\ \E m \in RunModes :
        ledgers = [r \in Runners |->
                     IF r = 1
                     THEN [at |-> "dispatch", data |-> ledger_file, opened |-> ledger_file,
                           mode |-> m, reg |-> 1, statuses |-> <<>>]
                     ELSE NoRun]

\* the run with the tail it is at done, its source recorded
next_tail(run, source) ==
    [run EXCEPT !.at = "dispatch", !.reg = @ + 1, !.statuses = Append(@, source)]

\* fetch_aircraft up to the FlightAware fallback: a dry run returns at
\* once; otherwise ADSB.lol is queried and its result, if any, returned
FetchAircraft ==
    /\ ledgers[1].at = "dispatch"
    /\ ledgers[1].reg <= MaxTails
    /\ IF ledgers[1].mode = "dry_run"
       THEN /\ ledgers' = [ledgers EXCEPT ![1] = next_tail(@, "dry_run")]
            /\ UNCHANGED sent
       ELSE \E answer \in AdsbAnswers :
            /\ sent' = Append(sent, [to |-> "adsb_lol", reg |-> ledgers[1].reg,
                                     answer |-> answer])
            /\ ledgers' = [ledgers EXCEPT ![1] =
                             IF fetch_adsblol(answer) # None
                             THEN next_tail(@, "adsb_lol")
                             ELSE [@ EXCEPT !.at = "fallback"]]
    /\ UNCHANGED <<ledger_file, issued>>
    /\ UNCHANGED <<pc, cfg, args, ret, rows, aircraft, daily, weekly, history, today,
                   prior, call, loop, history_file, builds>>

\* fetch_flightaware up to and including ledger.record_call(): nothing is
\* sent at the cap or without a key
Fallback ==
    /\ ledgers[1].at = "fallback"
    /\ IF ~can_afford(ledgers[1].data) \/ ledgers[1].mode = "no_key"
       THEN /\ ledgers' = [ledgers EXCEPT ![1] = next_tail(@, "none")]
            /\ UNCHANGED ledger_file
       ELSE /\ ledgers' = [ledgers EXCEPT ![1].at = "requesting",
                                          ![1].data = record_call(@)]
            /\ ledger_file' = record_call(ledgers[1].data)
    /\ UNCHANGED <<issued, sent>>
    /\ UNCHANGED <<pc, cfg, args, ret, rows, aircraft, daily, weekly, history, today,
                   prior, call, loop, history_file, builds>>

\* fetch_flightaware from requests.get on: the request is sent, and gives
\* a result or none
FlightawareRequest ==
    /\ ledgers[1].at = "requesting"
    /\ issued' = issued + 1
    /\ \E outcome \in {"flightaware", "none"} :
        /\ sent' = Append(sent, [to |-> "flightaware", reg |-> ledgers[1].reg,
                                 answer |-> outcome])
        /\ ledgers' = [ledgers EXCEPT ![1] = next_tail(@, outcome)]
    /\ UNCHANGED ledger_file
    /\ UNCHANGED <<pc, cfg, args, ret, rows, aircraft, daily, weekly, history, today,
                   prior, call, loop, history_file, builds>>

NextSweep == FetchAircraft \/ Fallback \/ FlightawareRequest

SpecSweep == InitSweep /\ [][NextSweep]_vars

----------------------------------------------------------------------------
(* One run of build_all over the fleets of fleet_config.json *)

\* the config file: absent, not JSON, or a readable list of fleets
ConfigFiles == {"missing", "malformed", "ok"}

InitBuildAll ==
    /\ pc = "start"
    /\ cfg = EmptyDict
    /\ rows = <<>>
    /\ aircraft = EmptyAircraft
    /\ args = EmptyDict /\ ret = None
    /\ daily = EmptyAircraft /\ weekly = EmptyAircraft
    /\ history = EmptyDict /\ today = StartDay /\ prior = EmptyDict /\ call = Idle
    /\ NoFetch
    /\ history_file = EmptyDict /\ builds = EmptyDict /\ sent = <<>>
    /\ \E c \in ConfigFiles :
       \E fs \in (IF c = "ok" THEN FleetLists(MaxFleets) ELSE {<<>>}) :
          loop = [at |-> "start", config |-> c, fleets |-> fs,
                  ok |-> 0, skipped |-> 0, results |-> <<>>, code |-> None]

\* build_all up to the loop: return 1 without a config file, json.load
\* raises on a malformed one, return 0 without fleets
OpenConfig ==
    /\ loop.at = "start"
    /\ loop' =
        IF loop.config = "missing" THEN [loop EXCEPT !.at = "returned", !.code = Some(1)]
        ELSE IF loop.config = "malformed" THEN [loop EXCEPT !.at = "raised"]
        ELSE IF loop.fleets = <<>> THEN [loop EXCEPT !.at = "returned", !.code = Some(0)]
        ELSE [loop EXCEPT !.at = "looping"]
    /\ UNCHANGED <<ledger_file, ledgers, issued, history_file, builds, sent>>
    /\ UNCHANGED <<pc, cfg, args, ret, rows, aircraft, daily, weekly, history, today, prior, call>>

\* one turn of "for fc in fleets": build_fleet is called bare, so what it
\* raises leaves build_all; True and None are counted
BuildFleet ==
    /\ loop.at = "looping"
    /\ Len(loop.results) < Len(loop.fleets)
    /\ loop' = count_result(loop, build_fleet(loop.fleets[Len(loop.results) + 1]))
    /\ aircraft' = loop'.results[Len(loop'.results)].aircraft
    /\ cfg' = loop.fleets[Len(loop.results) + 1].cfg
    /\ UNCHANGED <<ledger_file, ledgers, issued, history_file, builds, sent>>
    /\ UNCHANGED <<pc, args, ret, rows, daily, weekly, history, today, prior, call>>

\* return 0 if (len(fleets) - total_done) == 0 else 1
ReturnCode ==
    /\ loop.at = "looping"
    /\ Len(loop.results) = Len(loop.fleets)
    /\ loop' = [loop EXCEPT !.at = "returned",
                            !.code = IF Len(loop.fleets) - (loop.ok + loop.skipped) = 0
                                     THEN Some(0) ELSE Some(1)]
    /\ UNCHANGED <<ledger_file, ledgers, issued, history_file, builds, sent>>
    /\ UNCHANGED <<pc, cfg, args, ret, rows, aircraft, daily, weekly, history, today, prior, call>>

NextBuildAll == OpenConfig \/ BuildFleet \/ ReturnCode

SpecBuildAll == InitBuildAll /\ [][NextBuildAll]_vars

----------------------------------------------------------------------------
(* Build runs on one history file: the history steps of build_fleet *)

\* the build processes
Builders == {1, 2}

\* the history file a build may find
HistoryFilesFound ==
    {[kind |-> "missing"], [kind |-> "not_json"], [kind |-> "list"],
     [kind |-> "flat_map", value |-> [t \in {TailOne} |-> 5]],
     MapValue(EmptyDict), MapValue(SeedHistory)}

\* the report date of an aircraft on the day of the build, if it has one:
\* the first tail's is a day or 91 days old, the second tail's two days
ReportDates(now, ages) == {None} \cup {Some(MinusDays(now, a)) : a \in ages}

\* the snapshot build b parsed: one or two tails with hours of its own,
\* each with a report date or none
BuildFleets(b, now) ==
    {[keys |-> tails,
      at   |-> [t \in {tails[k] : k \in DOMAIN tails} |->
                  Airframe(Some(100 * b), IF t = TailOne THEN d1 ELSE d2)]] :
        tails \in {<<TailOne, TailTwo>>, <<TailTwo, TailOne>>, <<TailTwo>>},
        d1 \in ReportDates(now, {1, 91}), d2 \in ReportDates(now, {2})}

NoBuild == [at |-> "idle"]

InitHistoryFile ==
    /\ pc = 0
    /\ cfg = EmptyDict /\ args = EmptyDict /\ ret = None
    /\ rows = <<>> /\ aircraft = EmptyAircraft
    /\ daily = EmptyAircraft /\ weekly = EmptyAircraft
    /\ history = EmptyDict /\ today = StartDay /\ prior = EmptyDict /\ call = Idle
    /\ NoFetch /\ loop = EmptyDict /\ sent = <<>>
    /\ history_file \in HistoryFilesFound
    /\ builds = [b \in Builders |-> NoBuild]

\* history = load_history(history_path), the CSVs being parsed
LoadHistory(b) ==
    /\ builds[b].at = "idle"
    /\ \E ac \in BuildFleets(b, today) :
        builds' = [builds EXCEPT ![b] =
                     [at |-> "loaded", aircraft |-> ac, found |-> history_file,
                      history |-> load_history(history_file), loaded_at |-> pc]]
    /\ pc' = pc + 1
    /\ UNCHANGED history_file
    /\ UNCHANGED <<ledger_file, ledgers, issued, loop, sent>>
    /\ UNCHANGED <<cfg, args, ret, rows, aircraft, daily, weekly, history, today, prior, call>>

\* what build b holds once update_history returned r or raised
after_update(build, r, step) ==
    IF r.raised
    THEN [build EXCEPT !.at = "raised"]
    ELSE [at |-> "saved", aircraft |-> build.aircraft, found |-> build.found,
          history |-> MapValue(r.value), loaded_at |-> build.loaded_at, saved_at |-> step]

\* report_dt from the first aircraft with a report date, update_history,
\* save_history: json.dump of the whole map over the file
SaveHistory(b) ==
    /\ builds[b].at = "loaded"
    /\ builds' = [builds EXCEPT ![b] =
                    after_update(@, update_loaded(@.history, @.aircraft,
                                                  report_dt_of(@.aircraft), today), pc)]
    /\ history_file' = IF builds'[b].at = "saved"
                     THEN save_history(history_file, builds'[b].history)
                     ELSE history_file
    /\ pc' = pc + 1
    /\ UNCHANGED <<ledger_file, ledgers, issued, loop, sent>>
    /\ UNCHANGED <<cfg, args, ret, rows, aircraft, daily, weekly, history, today, prior, call>>

NextHistoryFile == \E b \in Builders : LoadHistory(b) \/ SaveHistory(b)

SpecHistoryFile == InitHistoryFile /\ [][NextHistoryFile]_vars

----------------------------------------------------------------------------
(* Claims about the classifier *)

\* the cascade "<0, <= critical, <= coming, else" read as four exclusive cases
Cascade(v, critical, coming, b) ==
    /\ b \in {"OVERDUE", "CRITICAL", "COMING_DUE", "OK"}
    /\ (b = "OVERDUE") = (v < 0)
    /\ (b = "CRITICAL") = (v >= 0 /\ v <= critical)
    /\ (b = "COMING_DUE") = (v >= 0 /\ v > critical /\ v <= coming)

\* C1: classify decides on days alone whenever days is non-null (<0 OVERDUE,
\* <= criticalDays CRITICAL, <= comingDays COMING_DUE, else OK), applies the
\* same shape to hours with criticalHrs/comingHrs only when days is null, and
\* returns UNKNOWN exactly when both are null; a null is never read as zero.
C1_ClassifyCascade ==
    pc = "classified" =>
        LET d == args.days
            h == args.hours
            t == args.thresh
            b == Val(ret)
        IN  /\ ~IsNone(d) =>
                Cascade(Val(d), Get(t, "criticalDays", DefaultCriticalDays),
                        Get(t, "comingDays", DefaultComingDays), b)
            /\ (IsNone(d) /\ ~IsNone(h)) =>
                Cascade(Val(h), Get(t, "criticalHrs", DefaultCriticalHrs),
                        Get(t, "comingHrs", DefaultComingHrs), b)
            /\ (b = "UNKNOWN") = (IsNone(d) /\ IsNone(h))

\* days 40 with hours 1 under the default thresholds is OK, and a row with
\* hours alone was classified too
C1_Witness ==
    /\ pc = "classified"
    /\ args.days = Some(40) /\ args.hours = Some(1) /\ args.thresh = EmptyDict
    /\ ret = Some("OK")

----------------------------------------------------------------------------
(* Claims about parse_fleet_csv *)

FleetType == Get(cfg, "type", "all")

Rules == _flatten_inspections(cfg)

Labels == {Rules[k]["label"] : k \in DOMAIN Rules}

\* a row the scan does not skip
Accepted(row) == row.ncols > MaxColIndex /\ Strip(row.reg) # <<>>

TypeOf(row) == Upper(Strip(row.item_type))

\* the rows with two neighbours exchanged
SwapAt(s, i) ==
    [k \in DOMAIN s |-> IF k = i THEN s[i + 1] ELSE IF k = i + 1 THEN s[i] ELSE s[k]]

\* C2: any two orderings of the same rows give the same retained item in
\* every slot (phase) and the same final item order (all), ties included.  Two orderings differ by exchanges of neighbours, and every
\* ordering is a run of its own, so one exchange is compared here.
C2_OrderIndependent ==
    pc = "parsed" =>
        \A i \in 1..(Len(rows) - 1) :
            LET other == parse_fleet_csv(SwapAt(rows, i), cfg)
            IN  \A t \in DOMAIN aircraft.at :
                    other.at[t].items = aircraft.at[t].items

\* no two positions of an item list carry the same rule label
OneItemPerLabel(items) ==
    \A i, j \in DOMAIN items :
        i # j => items[i].tracked_label # items[j].tracked_label

\* C3, as parse_fleet_csv returns the record: in a phase fleet no two items
\* of an aircraft carry the same rule label, whatever the rule list.
C3_OneItemPerLabelParsed ==
    (pc = "parsed" /\ FleetType = "phase") =>
        \A t \in DOMAIN aircraft.at : OneItemPerLabel(aircraft.at[t].items)

\* the component window of the fleet
ComponentWindow ==
    Get(Get(cfg, "thresholds", EmptyDict), "componentWindow", DefaultComponentWindow)

\* the in-window test as the specification words it
InWindow(row) ==
    LET h == safe_float(row.rem_hrs)
        d == safe_float(row.rem_days)
    IN  \/ (h # None /\ Val(h) <= ComponentWindow)
        \/ (h = None /\ d # None /\ Val(d) <= ComponentDays)
        \/ Upper(Strip(row.status)) = StrPastDue

IsSuffix(t, a) == Len(t) <= Len(a) /\ SubSeq(a, Len(a) - Len(t) + 1, Len(a)) = t

\* an item made from the row: its ata text, remaining values and raw status
\* are the row's, and its description is the row's, less a prefix
ItemOfRow(it, row) ==
    /\ it.ata = Strip(row.ata)
    /\ it.remaining_hours = safe_float(row.rem_hrs)
    /\ it.remaining_days = safe_float(row.rem_days)
    /\ it.next_due_status = Strip(row.status)
    /\ IsSuffix(it.description, Strip(row.desc))

ItemsOfTail(t) == aircraft.at[t].items

\* C9: a PART row that passes the in-window test is an untracked due item
\* of its tail's final item list, in every fleet type.
C9_PartRowsIncluded ==
    pc = "parsed" =>
        \A k \in DOMAIN rows :
            (Accepted(rows[k]) /\ TypeOf(rows[k]) = StrPart /\ InWindow(rows[k])) =>
                \E n \in DOMAIN ItemsOfTail(Strip(rows[k].reg)) :
                    LET it == ItemsOfTail(Strip(rows[k].reg))[n]
                    IN  ItemOfRow(it, rows[k]) /\ ~it.tracked /\ it.tracked_label = None

\* the rules that match the row, by position in the flattened configuration
MatchingRules(row) == {n \in DOMAIN Rules : ata_matches(Strip(row.ata), Rules[n])}

FirstRule(row) == Rules[CHOOSE n \in MatchingRules(row) : \A m \in MatchingRules(row) : n <= m]

\* the rows of an all fleet the claim says become due items
DueInspection(row) ==
    /\ Accepted(row) /\ TypeOf(row) = StrInspection
    /\ MatchingRules(row) # {} \/ (has_retirement_kw(Strip(row.desc)) /\ InWindow(row))

DuePart(row) == Accepted(row) /\ TypeOf(row) = StrPart /\ InWindow(row)

\* C10: in an all fleet an INSPECTION row becomes a due item iff it matches
\* a configured rule, or has a retirement keyword and is in window; its
\* tracked_label and group are those of the first matching rule, and tracked
\* is true exactly when there is one.  (No other row but an in-window PART
\* row adds an item, so the items of a tail are as many as such rows.)
C10_AllFleetInspections ==
    (pc = "parsed" /\ FleetType = "all") =>
        /\ \A k \in DOMAIN rows :
            DueInspection(rows[k]) =>
                \E n \in DOMAIN ItemsOfTail(Strip(rows[k].reg)) :
                    LET it == ItemsOfTail(Strip(rows[k].reg))[n]
                        m  == MatchingRules(rows[k])
                    IN  /\ ItemOfRow(it, rows[k])
                        /\ it.tracked = (m # {})
                        /\ m # {} => /\ it.tracked_label = Some(FirstRule(rows[k])["label"])
                                     /\ it.group = FirstRule(rows[k])["_group"]
                        /\ m = {} => it.tracked_label = None /\ it.group = None
        /\ \A t \in DOMAIN aircraft.at :
            Len(ItemsOfTail(t)) =
                Cardinality({k \in DOMAIN rows :
                    /\ Strip(rows[k].reg) = t
                    /\ DueInspection(rows[k]) \/ DuePart(rows[k])})

\* a row matching two rules took the first one's label, and an untracked
\* overhaul row past due came in by its raw status alone
C10_Witness ==
    /\ pc = "parsed" /\ cfg = CfgAll
    /\ rows = <<RowInterim, RowBoth>>
    /\ \E n \in 1..2 : /\ ItemsOfTail(<<"N","1">>)[n].tracked_label = Some(<<"1","0","0","H","R">>)
                       /\ ItemOfRow(ItemsOfTail(<<"N","1">>)[n], RowBoth)
    /\ \E n \in 1..2 : /\ ~ItemsOfTail(<<"N","1">>)[n].tracked
                       /\ ItemOfRow(ItemsOfTail(<<"N","1">>)[n], RowInterim)

----------------------------------------------------------------------------
(* Claims about the merge *)

Count(x, seq) == Cardinality({k \in DOMAIN seq : seq[k] = x})

ItemSet(seq) == {seq[k] : k \in DOMAIN seq}

\* the rule labels among the items of a record
LabelsIn(seq) == {seq[k].tracked_label : k \in DOMAIN seq}

\* the weekly items of a tail whose label the daily record does not have, in weekly order
Newcomers(t) ==
    SelectSeq(weekly.at[t].items,
              LAMBDA it : it.tracked_label \notin LabelsIn(daily.at[t].items))

InBoth == DOMAIN daily.at \cap DOMAIN weekly.at

\* C4: after the merge a tail only in the weekly snapshot has exactly the
\* weekly record; a tail in both has exactly the daily items, each unchanged,
\* plus the weekly items whose tracked_label is not among the daily items,
\* and keeps the daily airframe hours and report date.
C4_MergeKeepsPrimary ==
    pc = "merged" =>
        /\ DOMAIN aircraft.at = DOMAIN daily.at \cup DOMAIN weekly.at
        /\ \A t \in DOMAIN weekly.at \ DOMAIN daily.at : aircraft.at[t] = weekly.at[t]
        /\ \A t \in DOMAIN daily.at \ DOMAIN weekly.at : aircraft.at[t] = daily.at[t]
        /\ \A t \in InBoth :
            /\ aircraft.at[t].airframe_hours = daily.at[t].airframe_hours
            /\ aircraft.at[t].airframe_report_date = daily.at[t].airframe_report_date
            /\ \A x \in ItemSet(aircraft.at[t].items) \cup ItemSet(daily.at[t].items)
                        \cup ItemSet(weekly.at[t].items) :
                    Count(x, aircraft.at[t].items)
                        = Count(x, daily.at[t].items) + Count(x, Newcomers(t))

\* a tail of both snapshots whose weekly record has a label the daily one
\* has, with other values, and a label it has not; and a tail only in the weekly one
C4_Witness ==
    /\ pc = "merged"
    /\ DOMAIN weekly.at \ DOMAIN daily.at # {}
    /\ \E t \in InBoth :
        /\ Newcomers(t) # <<>>
        /\ \E w \in ItemSet(weekly.at[t].items) :
            /\ w.tracked_label \in LabelsIn(daily.at[t].items)
            /\ w \notin ItemSet(daily.at[t].items)
        /\ daily.at[t].airframe_hours # weekly.at[t].airframe_hours

\* the position of a label in the flattened rule list (the last one, for a
\* label configured more than once), or none
Position(L) ==
    IF \E k \in DOMAIN Rules : Some(Rules[k]["label"]) = L
    THEN Some(CHOOSE k \in DOMAIN Rules :
                /\ Some(Rules[k]["label"]) = L
                /\ \A m \in DOMAIN Rules : Some(Rules[m]["label"]) = L => m <= k)
    ELSE None

Unconfigured(seq) == SelectSeq(seq, LAMBDA it : Position(it.tracked_label) = None)

\* C5: after the merge the items of a tail of both snapshots are in the
\* order of their labels' positions in the flattened rule list; items whose
\* label is not configured come after all configured ones, in the order
\* they had before the sort (daily items, then the added weekly items).
C5_MergedInConfigOrder ==
    pc = "merged" =>
        \A t \in InBoth :
            LET items == aircraft.at[t].items IN
            /\ \A i, j \in DOMAIN items :
                i < j =>
                    \/ Position(items[j].tracked_label) = None
                    \/ /\ Position(items[i].tracked_label) # None
                       /\ Val(Position(items[i].tracked_label))
                            <= Val(Position(items[j].tracked_label))
            /\ Unconfigured(items) = Unconfigured(daily.at[t].items \o Newcomers(t))

\* the sort moved an added weekly item in front of a daily item
C5_Witness ==
    /\ pc = "merged"
    /\ \E t \in InBoth :
        /\ Newcomers(t) # <<>>
        /\ aircraft.at[t].items # daily.at[t].items \o Newcomers(t)

----------------------------------------------------------------------------
(* Claims about the history tracker *)

Called == call.op = "update_history"

\* the key the last call wrote under
DateKey == strftime(IF call.report_dt = None THEN call.today ELSE Val(call.report_dt))

\* the text of the day n days before the last call's day
DaysBack(n) == strftime(MinusDays(call.today, n))

\* the date a key spells
KeyDate(key) ==
    <<DecimalVal(SubSeq(key, 1, 4)), DecimalVal(SubSeq(key, 6, 7)),
      DecimalVal(SubSeq(key, 9, 10))>>

\* a is the day b or a later day
OnOrAfter(a, b) ==
    \/ a[1] > b[1]
    \/ a[1] = b[1] /\ a[2] > b[2]
    \/ a[1] = b[1] /\ a[2] = b[2] /\ a[3] >= b[3]

Recent(key) == OnOrAfter(KeyDate(key), MinusDays(call.today, RetentionDays))

Overwritten(t, key) == key = DateKey /\ t \in WithHours(call.aircraft)

\* C6: after update_history every entry left has a date key on or after
\* today minus 90 days, every prior entry with such a key that was not
\* overwritten is still there unchanged, and every older entry is gone.
C6_NinetyDayRetention ==
    Called =>
        /\ \A t \in DOMAIN history : \A d \in DOMAIN history[t] : Recent(d)
        /\ \A t \in DOMAIN prior :
            /\ t \in DOMAIN history
            /\ \A d \in DOMAIN prior[t] :
                /\ (Recent(d) /\ ~Overwritten(t, d)) =>
                        (d \in DOMAIN history[t] /\ history[t][d] = prior[t][d])
                /\ ~Recent(d) => d \notin DOMAIN history[t]

\* a call on a map with entries 89, 90, 91 and 95 days old: the first two
\* kept, the last two removed
C6_Witness ==
    /\ Called
    /\ \E t \in DOMAIN prior :
        /\ {DaysBack(89), DaysBack(90), DaysBack(91), DaysBack(95)} \subseteq DOMAIN prior[t]
        /\ ~Overwritten(t, DaysBack(89)) /\ ~Overwritten(t, DaysBack(90))
        /\ DOMAIN history[t] \cap
              {DaysBack(89), DaysBack(90), DaysBack(91), DaysBack(95)}
                = {DaysBack(89), DaysBack(90)}

\* C7, as stated: after update_history every tail with non-null hours has
\* the entry {hours, date: dateKey} under dateKey, whatever the report date.
C7_EntryUnderDateKey ==
    Called =>
        \A t \in WithHours(call.aircraft) :
            /\ t \in DOMAIN history
            /\ DateKey \in DOMAIN history[t]
            /\ history[t][DateKey] =
                 [hours |-> Val(call.aircraft.at[t].airframe_hours), date |-> DateKey]

\* C7, amended: the entry is there when dateKey is on or after today minus
\* 90 days; for an older report date the tail has no entry under dateKey.
C7_EntryUnderRecentDateKey ==
    Called =>
        \A t \in WithHours(call.aircraft) :
            /\ t \in DOMAIN history
            /\ Recent(DateKey) =>
                /\ DateKey \in DOMAIN history[t]
                /\ history[t][DateKey] =
                     [hours |-> Val(call.aircraft.at[t].airframe_hours), date |-> DateKey]
            /\ ~Recent(DateKey) => DateKey \notin DOMAIN history[t]

\* a report date exactly 90 days back, written over an entry with other hours
C7_Witness ==
    /\ Called
    /\ call.report_dt = Some(MinusDays(call.today, RetentionDays))
    /\ \E t \in WithHours(call.aircraft) :
        /\ t \in DOMAIN prior /\ DateKey \in DOMAIN prior[t]
        /\ prior[t][DateKey].hours # Val(call.aircraft.at[t].airframe_hours)
        /\ history[t][DateKey].hours = Val(call.aircraft.at[t].airframe_hours)

\* C8: a second update_history with the same tail hours, the same report
\* date and the same day, on the map the first returned, leaves it unchanged.
C8_Idempotent == (Called /\ call.repeat) => history = prior

\* a repeated call that had hours to write, under a key the map keeps
C8_Witness ==
    /\ Called /\ call.repeat
    /\ \E t \in WithHours(call.aircraft) : DateKey \in DOMAIN history[t]
    /\ \E t \in DOMAIN history : DOMAIN history[t] \ {DateKey} # {}

----------------------------------------------------------------------------
(* Claims about the slots of a phase fleet *)

\* the candidate a row offers to a rule of a phase fleet
Candidate(row, rule) ==
    LET thresh == Get(cfg, "thresholds", EmptyDict)
        desc   == Strip(row.desc)
    IN  PhaseItem(rule, Strip(row.ata), desc, safe_float(row.rem_hrs),
                  safe_float(row.rem_days), Strip(row.status),
                  classify(safe_float(row.rem_days), safe_float(row.rem_hrs), thresh),
                  IsSubstr(StrRII, Upper(Strip(row.disposition)))
                      \/ IsSubstr(StrRII, Upper(desc)))

\* the candidates one row offers to the slot of label L of tail t, in rule order
RowCandidates(row, t, L) ==
    IF Accepted(row) /\ Strip(row.reg) = t /\ TypeOf(row) = StrInspection
    THEN LET hits == SelectSeq([k \in DOMAIN Rules |-> k],
                        LAMBDA k : Rules[k]["label"] = L
                                    /\ ata_matches(Strip(row.ata), Rules[k]))
         IN  [n \in DOMAIN hits |-> Candidate(row, Rules[hits[n]])]
    ELSE <<>>

\* all candidates the rows offer to that slot, in arrival order
RECURSIVE CandidateSeq(_, _, _)
CandidateSeq(rs, t, L) ==
    IF rs = <<>> THEN <<>>
    ELSE RowCandidates(Head(rs), t, L) \o CandidateSeq(Tail(rs), t, L)

HasNumber(o) == o # None

\* the rule of the claim: does the new candidate replace the held one
Replaces(new, held) ==
    \/ /\ HasNumber(new.remaining_hours) /\ HasNumber(held.remaining_hours)
       /\ Val(new.remaining_hours) < Val(held.remaining_hours)
    \/ HasNumber(new.remaining_hours) /\ ~HasNumber(held.remaining_hours)
    \/ /\ ~HasNumber(new.remaining_hours)
       /\ HasNumber(new.remaining_days) /\ HasNumber(held.remaining_days)
       /\ Val(new.remaining_days) < Val(held.remaining_days)

\* the candidates folded in arrival order, starting from a held one
RECURSIVE FoldFrom(_, _)
FoldFrom(held, cs) ==
    IF cs = <<>> THEN held
    ELSE FoldFrom(IF Replaces(Head(cs), held) THEN Head(cs) ELSE held, Tail(cs))

\* the items of a tail that carry a rule label
SlotOf(ac, t, L) ==
    {ac.at[t].items[k] : k \in {n \in DOMAIN ac.at[t].items :
                                    ac.at[t].items[n].tracked_label = Some(L)}}

\* C11: for a phase fleet the slot of a label of a tail holds the fold of
\* the slot's candidates in arrival order, a new candidate replacing the
\* held one iff it has fewer hours, or has hours where the held one has
\* none, or has no hours and fewer days; otherwise the held one stays.
C11_SlotIsFold ==
    (pc = "parsed" /\ FleetType = "phase") =>
        \A t \in DOMAIN aircraft.at : \A L \in Labels :
            LET cs == CandidateSeq(rows, t, L)
            IN  SlotOf(aircraft, t, L) =
                    IF cs = <<>> THEN {} ELSE {FoldFrom(Head(cs), Tail(cs))}

\* a days-only candidate due sooner was held, and a later candidate with
\* hours took the slot
C11_Witness ==
    /\ pc = "parsed" /\ FleetType = "phase"
    /\ \E t \in DOMAIN aircraft.at : \E L \in Labels :
        LET cs == CandidateSeq(rows, t, L)
        IN  /\ Len(cs) = 2
            /\ ~HasNumber(cs[1].remaining_hours) /\ HasNumber(cs[2].remaining_hours)
            /\ HasNumber(cs[1].remaining_days) /\ HasNumber(cs[2].remaining_days)
            /\ Val(cs[1].remaining_days) < Val(cs[2].remaining_days)
            /\ SlotOf(aircraft, t, L) = {cs[2]}


\* the labels of the rules that have a candidate for tail t, in rule order
FilledLabels(t) ==
    LET filled == SelectSeq([k \in DOMAIN Rules |-> k],
                      LAMBDA k : CandidateSeq(rows, t, Rules[k]["label"]) # <<>>)
    IN  [n \in DOMAIN filled |-> Rules[filled[n]]["label"]]

----------------------------------------------------------------------------
(* Claims about the order of a non-phase fleet *)

\* the bucket ranks of the claim
BucketRank(status) ==
    CASE status = "OVERDUE"    -> 0
      [] status = "CRITICAL"   -> 1
      [] status = "COMING_DUE" -> 2
      [] status = "OK"         -> 3
      [] status = "UNKNOWN"    -> 4

\* the secondary key of the claim: days, else hours, else nothing
Secondary(item) ==
    IF item.remaining_days # None THEN item.remaining_days ELSE item.remaining_hours

\* a sorts strictly before b: lower rank, or equal rank and a lower
\* secondary, an item with no secondary being above every number
SortsBefore(a, b) ==
    \/ BucketRank(a.status) < BucketRank(b.status)
    \/ /\ BucketRank(a.status) = BucketRank(b.status)
       /\ Secondary(a) # None
       /\ Secondary(b) = None \/ Val(Secondary(a)) < Val(Secondary(b))

SameSortKey(a, b) == ~SortsBefore(a, b) /\ ~SortsBefore(b, a)

\* the items of tail t as the scan appended them, before the final sort
Arrival(t) == scan(EmptyAircraft, rows, cfg).at[t].items

\* C13: for a non-phase fleet the items of a tail are in ascending sortKey
\* order (bucket rank, then days if present, else hours, else above every
\* value), and items with equal keys keep their arrival order.
C13_SortedByUrgency ==
    (pc = "parsed" /\ FleetType # "phase") =>
        \A t \in DOMAIN aircraft.at :
            LET items == aircraft.at[t].items
            IN  /\ \A i, j \in DOMAIN items : i < j => ~SortsBefore(items[j], items[i])
                /\ \A x \in ItemSet(items) \cup ItemSet(Arrival(t)) :
                    SelectSeq(items, LAMBDA y : SameSortKey(x, y))
                        = SelectSeq(Arrival(t), LAMBDA y : SameSortKey(x, y))

\* the sort moved a later row's item in front of an earlier row's
C13_Witness ==
    /\ pc = "parsed" /\ FleetType # "phase"
    /\ \E t \in DOMAIN aircraft.at :
        /\ Len(aircraft.at[t].items) = 2
        /\ aircraft.at[t].items = <<Arrival(t)[2], Arrival(t)[1]>>
        /\ SortsBefore(Arrival(t)[2], Arrival(t)[1])

----------------------------------------------------------------------------
(* Claims about the ATA matcher *)

C15_NormalizeIdempotent ==
    pc = "normalized" => norm_ata(ret.a) = ret.a

\* a text the normalizer changed in case, spacing and separator
C15_Witness ==
    /\ pc = "normalized"
    /\ Len(ret.a) < Len(args.x)
    /\ \E i \in DOMAIN ret.a : ret.a[i] = "-" /\ "-" \notin {args.x[k] : k \in DOMAIN args.x}
    /\ Upper(args.x) # args.x

\* the length of the chapter code the claim has removed: one digit or two
\* digits, followed by a single space
ChapterLen(s) ==
    IF Len(s) >= 3 /\ s[1] \in Digits /\ s[2] \in Digits /\ s[3] = " " THEN 2
    ELSE IF Len(s) >= 2 /\ s[1] \in Digits /\ s[2] = " " THEN 1
    ELSE 0

\* C16: stripChapter removes a leading code of one or of two digits that a
\* single space follows, and returns every other normalized text unchanged.
C16_StripChapter ==
    pc = "normalized" =>
        ret.a_stripped =
            IF ChapterLen(ret.a) > 0
            THEN SubSeq(ret.a, ChapterLen(ret.a) + 2, Len(ret.a))
            ELSE ret.a

----------------------------------------------------------------------------
(* Claims about the spend ledger *)

\* C17: with runs that share the ledger file and may overlap, the
\* FlightAware requests sent in the month never exceed the calls the cap
\* pays for: two runs never both pay for the last call.
C17_SharedLedgerHoldsCap == issued <= CallBudget

----------------------------------------------------------------------------
(* Claims about the build driver *)

\* the daily file of fleet fc was read and has fewer than two rows
ShortDaily(fc) == ~IsNone(fc.daily) /\ Len(Val(fc.daily)) < 2

\* C19: the build of a fleet fails hard exactly when its primary (daily)
\* CSV has fewer than two rows; with any other input, a weekly CSV of
\* fewer than two rows, too-narrow rows, unparseable fields and an empty
\* rule list included, the build of the fleet completes.
C19_OnlyShortDailyFails ==
    loop.at \in {"looping", "returned", "raised"} =>
        \A k \in 1..Len(loop.results) :
            loop.results[k].result = "raised" <=> ShortDaily(loop.fleets[k])

\* C20: build_all always ends by returning an exit code: 1 when the config
\* file is missing or a fleet hit a real error, 0 when every fleet was
\* built or skipped; and it has then gone through every configured fleet,
\* whatever happened to the fleets before.
C20_BuildAllReturns ==
    /\ loop.at # "raised"
    /\ loop.at = "returned" =>
        /\ loop.code \in {Some(0), Some(1)}
        /\ loop.config = "ok" => Len(loop.results) = Len(loop.fleets)
        /\ loop.code = Some(1) <=>
              \/ loop.config = "missing"
              \/ \E k \in 1..Len(loop.results) : loop.results[k].result = "raised"


----------------------------------------------------------------------------
(* Claims about the history file *)

\* C21: a build that finds a history file it cannot use as a history map
\* (missing, not JSON, or JSON of another shape) goes on as with an empty
\* history: it does not fail, and the history it saves is the one
\* update_history makes of an empty map, this run's entries only.
C21_UnusableHistoryIsEmpty ==
    \A b \in Builders :
        (builds[b].at \in {"saved", "raised"} /\ builds[b].found.kind # "map") =>
            /\ builds[b].at = "saved"
            /\ builds[b].history =
                  MapValue(update_history(EmptyDict, builds[b].aircraft,
                                          report_dt_of(builds[b].aircraft), today))


----------------------------------------------------------------------------
(* Claims about the due items of a build *)

StatusSet == {"OVERDUE", "CRITICAL", "COMING_DUE", "OK", "UNKNOWN"}

\* the items of every tail of a snapshot
ItemsIn(snap) ==
    UNION {{snap.at[t].items[k] : k \in DOMAIN snap.at[t].items} : t \in DOMAIN snap.at}

\* C22: every due item of every aircraft record, in the daily snapshot, in
\* the weekly one and in the merged result, has one status out of
\* OVERDUE, CRITICAL, COMING_DUE, OK, UNKNOWN, and it is classify of the
\* item's own remaining days and hours under the fleet's thresholds.
C22_StatusIsClassify ==
    \A it \in ItemsIn(aircraft) \cup ItemsIn(daily) \cup ItemsIn(weekly) :
        /\ it.status \in StatusSet
        /\ it.status = classify(it.remaining_days, it.remaining_hours,
                                Get(cfg, "thresholds", EmptyDict))

\* a merged result with an item that has no remaining value (UNKNOWN) and
\* one that is classified, one of the items brought in by the weekly
\* snapshot
C22_Witness ==
    /\ pc = "merged"
    /\ \E a \in ItemsIn(aircraft), b \in ItemsIn(aircraft) :
          /\ a.status = "UNKNOWN" /\ IsNone(a.remaining_days) /\ IsNone(a.remaining_hours)
          /\ b.status \in {"OVERDUE", "CRITICAL"}
    /\ ItemsIn(aircraft) \ ItemsIn(daily) # {}


----------------------------------------------------------------------------
(* Claims about the aircraft records *)

\* the rows read so far that carry the tail t and are wide enough
RowsOf(t) == {k \in DOMAIN rows : Accepted(rows[k]) /\ Strip(rows[k].reg) = t}

FirstRowOf(t) == rows[CHOOSE k \in RowsOf(t) : \A j \in RowsOf(t) : k <= j]

\* C23: the aircraft map has one record per tail carried by a sufficiently
\* wide row; its airframe_hours and airframe_report_date are those of the
\* first such row, whatever the item type of that row and whatever the
\* later rows of the tail say; a tail none of whose rows is an INSPECTION
\* or a PART has a record with no item.
C23_FirstRowSetsAirframe ==
    /\ DOMAIN aircraft.at = {Strip(rows[k].reg) : k \in {j \in DOMAIN rows : Accepted(rows[j])}}
    /\ \A t \in DOMAIN aircraft.at :
        /\ aircraft.at[t].airframe_hours = safe_float(FirstRowOf(t).airframe_hrs)
        /\ aircraft.at[t].airframe_report_date = parse_date(FirstRowOf(t).airframe_rpt)
        /\ (\A k \in RowsOf(t) : TypeOf(rows[k]) \notin {StrInspection, StrPart})
              => aircraft.at[t].items = <<>>

\* a parsed file where the first row of a tail is of a dropped type and a
\* later row of the same tail, an inspection, disagrees with it on the
\* airframe hours and on the report date
C23_Witness ==
    /\ pc = "parsed"
    /\ \E t \in DOMAIN aircraft.at :
        /\ TypeOf(FirstRowOf(t)) \notin {StrInspection, StrPart}
        /\ ~IsNone(aircraft.at[t].airframe_hours)
        /\ \E k \in RowsOf(t) :
              /\ TypeOf(rows[k]) = StrInspection
              /\ safe_float(rows[k].airframe_hrs) # aircraft.at[t].airframe_hours
              /\ parse_date(rows[k].airframe_rpt) # aircraft.at[t].airframe_report_date

----------------------------------------------------------------------------
(* Claims about the display label *)

\* the description less a leading "(RII)" or a leading "RII ", in any case
Unprefixed(desc) ==
    IF StartsWithCI(desc, StrParenRII) THEN Strip(SubSeq(desc, Len(StrParenRII) + 1, Len(desc)))
    ELSE IF StartsWithCI(desc, Append(StrRII, " ")) THEN Strip(SubSeq(desc, Len(StrRII) + 2, Len(desc)))
    ELSE desc

\* C24: in a fleet of type all, the item of every included INSPECTION or
\* PART row has as its label the row's description less a leading "(RII)"
\* or "RII " in any case, and its rii flag says whether the disposition or
\* the description contains RII.
C24_LabelLessRIIPrefix ==
    (pc = "parsed" /\ FleetType = "all") =>
        \A k \in DOMAIN rows :
            (Accepted(rows[k]) /\ TypeOf(rows[k]) \in {StrInspection, StrPart}) =>
                \A n \in DOMAIN ItemsOfTail(Strip(rows[k].reg)) :
                    LET it == ItemsOfTail(Strip(rows[k].reg))[n]
                    IN  ItemOfRow(it, rows[k]) =>
                          /\ it.label = Unprefixed(Strip(rows[k].desc))
                          /\ it.rii <=> \/ IsSubstr(StrRII, Upper(Strip(rows[k].disposition)))
                                        \/ IsSubstr(StrRII, Upper(Strip(rows[k].desc)))


----------------------------------------------------------------------------
(* Claims about builds that share a history file *)

\* both builds loaded the history before either saved, and both saved
Interleaved ==
    /\ \A b \in Builders : builds[b].at = "saved"
    /\ \A b \in Builders, c \in Builders : builds[b].loaded_at < builds[c].saved_at

LastSaver == CHOOSE b \in Builders : \A c \in Builders : builds[c].saved_at <= builds[b].saved_at

FirstSaver == CHOOSE b \in Builders : b # LastSaver

\* the entries build b put into the map it saved: those the file it found
\* did not hold
Fresh(b) ==
    LET saved == builds[b].history.value
        found == load_history(builds[b].found).value
    IN  {<<t, k>> \in UNION {{<<t, k>> : k \in DOMAIN saved[t]} : t \in DOMAIN saved} :
            ~(t \in DOMAIN found /\ k \in DOMAIN found[t] /\ found[t][k] = saved[t][k])}

\* C25: when two builds on one history file both load it before either
\* saves, the file they leave is the map of the build that saved last, as
\* that build made it from what it had loaded: no entry the other build
\* wrote is in it, and a tail only the other build wrote is not in it.
C25_LastSaveWins ==
    Interleaved =>
        LET file  == history_file.value
            last  == builds[LastSaver]
            other == builds[FirstSaver].history.value
        IN  /\ history_file = last.history
            /\ last.history =
                  MapValue(update_history(load_history(last.found).value, last.aircraft,
                                          report_dt_of(last.aircraft), today))
            /\ \A e \in Fresh(FirstSaver) :
                  ~(e[1] \in DOMAIN file /\ e[2] \in DOMAIN file[e[1]]
                    /\ file[e[1]][e[2]] = other[e[1]][e[2]])
            /\ \A t \in DOMAIN other :
                  (t \notin DOMAIN load_history(last.found).value /\ t \notin DOMAIN last.aircraft.at)
                      => t \notin DOMAIN file

\* two interleaved builds on an empty history: the first to save wrote
\* entries for two tails, and one of the tails is gone from the file
C25_Witness ==
    /\ Interleaved
    /\ builds[FirstSaver].found = MapValue(EmptyDict)
    /\ Fresh(FirstSaver) # {}
    /\ \E t \in DOMAIN builds[FirstSaver].history.value : t \notin DOMAIN history_file.value


----------------------------------------------------------------------------
(* Claims about the date key of a build *)

\* the aircraft of the map, in its order, that have a report date
Dated(ac) == {i \in DOMAIN ac.keys : ~IsNone(ac.at[ac.keys[i]].airframe_report_date)}

\* the date key of a build: the report date of the first of them, today
\* when there is none
KeyOfBuild(ac) ==
    strftime(IF Dated(ac) = {} THEN today
             ELSE Val(ac.at[ac.keys[CHOOSE i \in Dated(ac) : \A j \in Dated(ac) : i <= j]]
                        .airframe_report_date))

\* C27: the entries a build writes into the history are all under one date
\* key, the report date of the first aircraft of the map that has one
\* (today if none has), for every tail with airframe hours, whatever
\* report date the tail itself carries; the entries are in the saved map
\* unless the key is older than the 90 days that are kept.
C27_OneDateKeyPerBuild ==
    \A b \in Builders :
        builds[b].at = "saved" =>
            LET ac    == builds[b].aircraft
                saved == builds[b].history.value
            IN  /\ \A e \in Fresh(b) : e[2] = KeyOfBuild(ac)
                /\ \A t \in WithHours(ac) :
                      /\ t \in DOMAIN saved
                      /\ OnOrAfter(KeyDate(KeyOfBuild(ac)), MinusDays(today, RetentionDays)) =>
                            /\ KeyOfBuild(ac) \in DOMAIN saved[t]
                            /\ saved[t][KeyOfBuild(ac)] =
                                  [hours |-> Val(ac.at[t].airframe_hours),
                                   date  |-> KeyOfBuild(ac)]

\* a build of two tails that carry different report dates: the second
\* tail's entry is under the first tail's date, and it has none under its own
C27_Witness ==
    \E b \in Builders :
        /\ builds[b].at = "saved"
        /\ LET ac == builds[b].aircraft
           IN  /\ Len(ac.keys) = 2
               /\ Dated(ac) = {1, 2}
               /\ ac.at[ac.keys[1]].airframe_report_date # ac.at[ac.keys[2]].airframe_report_date
               /\ KeyOfBuild(ac) \in DOMAIN builds[b].history.value[ac.keys[2]]
               /\ strftime(Val(ac.at[ac.keys[2]].airframe_report_date))
                     \notin DOMAIN builds[b].history.value[ac.keys[2]]


----------------------------------------------------------------------------
(* Claims about the summary *)

\* the due items of the dashboard with status s
ItemsWith(s) ==
    {<<t, k>> \in UNION {{<<t, k>> : k \in DOMAIN aircraft.at[t].items} : t \in DOMAIN aircraft.at} :
        aircraft.at[t].items[k].status = s}

\* C28: in the summary of a written dashboard each of OVERDUE, CRITICAL,
\* COMING_DUE and OK is the number of due items of that status over all
\* tails, tracked or not, and total_tracked is their sum: the number of
\* due items less those of status UNKNOWN.
C28_SummaryCounts ==
    pc \in {"written", "written_merged"} =>
        LET sm == Val(ret) IN
        /\ sm.OVERDUE = Cardinality(ItemsWith("OVERDUE"))
        /\ sm.CRITICAL = Cardinality(ItemsWith("CRITICAL"))
        /\ sm.COMING_DUE = Cardinality(ItemsWith("COMING_DUE"))
        /\ sm.OK = Cardinality(ItemsWith("OK"))
        /\ sm.total_tracked = sm.OVERDUE + sm.CRITICAL + sm.COMING_DUE + sm.OK
        /\ sm.total_tracked =
              Cardinality(UNION {ItemsWith(s) : s \in StatusSet}) - Cardinality(ItemsWith("UNKNOWN"))

\* a dashboard with an untracked item that is counted and a tracked item
\* of status UNKNOWN that total_tracked leaves out
C28_Witness ==
    /\ pc = "written"
    /\ \E it \in ItemsIn(aircraft) : ~it.tracked /\ it.status \in CountedStatuses
    /\ \E it \in ItemsIn(aircraft) : it.tracked /\ it.status = "UNKNOWN"
    /\ Val(ret).total_tracked = 1


----------------------------------------------------------------------------
(* Claims about the two position sources *)

\* an answer with a live position: both coordinates, not older than 300 s
Usable(answer) ==
    /\ answer.kind = "http" /\ answer.status = 200 /\ answer.ac # <<>>
    /\ ~IsNone(answer.ac[1].lat) /\ ~IsNone(answer.ac[1].lon)
    /\ answer.ac[1].seen_pos <= 300

RequestsTo(source) == {k \in DOMAIN sent : sent[k].to = source}

\* the ADSB.lol query of tail n came back without a usable position
AdsbEmpty(n, before) ==
    \E j \in RequestsTo("adsb_lol") :
        j < before /\ sent[j].reg = n /\ ~Usable(sent[j].answer)

\* C26: in one run, a FlightAware request for a tail is sent only after
\* the ADSB.lol query for that tail came back without a usable live
\* position; a tail ADSB.lol answered gets no FlightAware request and
\* leaves the ledger as it was, so the calls recorded are those of the
\* fallbacks only; a dry run sends no request and records nothing.
C26_FlightawareOnlyAfterAdsb ==
    LET run      == ledgers[1]
        recorded == _month_entry(ledger_file).calls - _month_entry(run.opened).calls
        paying   == IF run.at = "requesting" THEN {run.reg} ELSE {}
    IN  /\ \A k \in RequestsTo("flightaware") : AdsbEmpty(sent[k].reg, k)
        /\ \A n \in paying : AdsbEmpty(n, Len(sent) + 1)
        /\ \A j \in RequestsTo("adsb_lol") :
              Usable(sent[j].answer) =>
                  /\ \A k \in RequestsTo("flightaware") : sent[k].reg # sent[j].reg
                  /\ sent[j].reg \notin paying
                  /\ sent[j].reg \in DOMAIN run.statuses
                  /\ run.statuses[sent[j].reg] = "adsb_lol"
        /\ recorded = Cardinality(RequestsTo("flightaware")) + Cardinality(paying)
        /\ run.mode = "dry_run" => sent = <<>> /\ ledger_file = run.opened

\* a run whose first tail ADSB.lol answered and whose second tail, with a
\* position 301 s old, went to FlightAware and was recorded
C26_Witness ==
    /\ Len(sent) = 3
    /\ Usable(sent[1].answer) /\ sent[1].reg = 1
    /\ sent[2].to = "adsb_lol" /\ sent[2].reg = 2
    /\ sent[2].answer.kind = "http" /\ sent[2].answer.status = 200
    /\ sent[2].answer.ac # <<>> /\ ~IsNone(sent[2].answer.ac[1].lat)
    /\ sent[2].answer.ac[1].seen_pos = 301
    /\ sent[3].to = "flightaware" /\ sent[3].reg = 2
    /\ _month_entry(ledger_file).calls = _month_entry(ledgers[1].opened).calls + 1

============================================================================
